---- MODULE Spec2Model ----
(***************************************************************************)
(* Model of the pyxctsk route optimizer (app/lib/pyxctsk) and of the task  *)
(* cache of the viewer (app/utils):                                        *)
(*   turnpoint.py           geometry of cylinders and goal lines           *)
(*   route_optimization.py  DP forward pass with beam pruning, back-trace, *)
(*                          iterative refinement loop                      *)
(*   optimization_config.py configuration defaults                         *)
(*   task.py                Task, Turnpoint and Goal built from task data  *)
(*   task_distances.py      adapter to TaskTurnpoint, the distance report  *)
(*   distance.py            optimized_distance                             *)
(*   sss_calculations.py    entry point of the start of speed section      *)
(*   task_cache.py          TaskCache, entries with an expiry time         *)
(*   route_helpers.py       cleanup_old_task_data_from_cache               *)
(*                                                                         *)
(* Specifications.  Spec: one optimize call.  SpecUnchecked: a call on     *)
(* arguments of any value.  SpecTask: a task parsed, constructed and       *)
(* converted.  SpecReport: calculate_task_distances and the cumulative     *)
(* query.  SpecSss: the SSS entry point.  SpecThreads: optimize calls of   *)
(* several threads, interleaved.  SpecStage: one stage of a forward pass   *)
(* on any previous stage.  SpecSssInfo: calculate_sss_info.  SpecCache:    *)
(* the methods of TaskCache, interleaved.  SpecCacheCleanup: stores        *)
(* followed by cleanup_old_task_data_from_cache.                           *)
(*                                                                         *)
(* Geometry.  Points are pairs <<x, y>> on an integer grid laid over a     *)
(* meridian: y is the distance north along the meridian, x the distance    *)
(* east of it, both in units of 100 m.  geodesic(a, b).meters is the       *)
(* Euclidean length rounded up to a whole unit, which is a metric on the   *)
(* grid and is exact for two points of the same meridian or parallel.      *)
(* geod.fwd is exact for the four azimuths 0, 90, 180, 270; a search over  *)
(* azimuths (fminbound on [0, 360]) is the search over these four.         *)
(***************************************************************************)
EXTENDS Integers, Sequences, FiniteSets, TLC

\* ---------------------------------------------------------------- bounds
MaxN == 3
MaxCoord == 1
MaxRadius == 1
MaxIter == 2
MaxBeam == 1
\* turnpoints of a task file
MaxTaskN == 2
\* threads that run an optimize call at the same time
MaxThreads == 2
\* the clock of the cache runs from 0 to MaxTime
MaxTime == 2

\* ------------------------------------------------------ program constants
DEFAULT_ANGLE_STEP == 10
DEFAULT_BEAM_WIDTH == 10
DEFAULT_NUM_ITERATIONS == 5
\* default_ttl = 300 (seconds) of TaskCache, in units of 300 s
DEFAULT_TTL == 1
\* max_items=10 of cleanup_old_task_data_from_cache
DEFAULT_MAX_ITEMS == 10
\* goal_line_length = 400.0 (metres) in units of 100 m
DefaultGoalLineLength == 4
\* the azimuth a full turn ends at (fminbound(objective, 0, 360))
FullTurn == 360
\* float("inf"), the distance of a candidate not yet in a stage
Inf == 1000000

\* azimuths for which geod.fwd stays on the grid, in search order
Azimuths == <<0, 90, 180, 270>>

\* Python's None, and a value that is not None
None == <<>>
Some(v) == <<v>>

Abs(a) == IF a < 0 THEN -a ELSE a

\* ------------------------------------------------------------- geodesy
\* geodesic(a, b).meters : smallest k with k*k >= dx*dx + dy*dy
geodesic(a, b) ==
  LET dx == Abs(a[1] - b[1])
      dy == Abs(a[2] - b[2])
      s  == dx * dx + dy * dy
  IN  CHOOSE k \in 0..(dx + dy) : k * k >= s /\ (k = 0 \/ (k - 1) * (k - 1) < s)

\* unit vector of an azimuth that is a multiple of 90 degrees
AzimuthVector(az) ==
  LET a == az % FullTurn
  IN  IF a = 0 THEN <<0, 1>>
      ELSE IF a = 90 THEN <<1, 0>>
      ELSE IF a = 180 THEN <<0, -1>>
      ELSE <<-1, 0>>

\* geod.fwd(lon, lat, azimuth, distance) -> the point reached
geod_fwd(p, az, d) ==
  LET v == AzimuthVector(az) IN <<p[1] + d * v[1], p[2] + d * v[2]>>

\* direction of travel from a to b as a vector; geod.inv gives azimuth 0
\* (north) for coincident points
Direction(a, b) ==
  IF a = b THEN <<0, 1>> ELSE <<b[1] - a[1], b[2] - a[2]>>

\* forward azimuth of geod.inv(a, b), to the nearest grid azimuth
geod_inv_azimuth(a, b) ==
  LET v == Direction(a, b)
  IN  IF Abs(v[2]) >= Abs(v[1])
      THEN (IF v[2] >= 0 THEN 0 ELSE 180)
      ELSE (IF v[1] > 0 THEN 90 ELSE 270)

Dot(u, v) == u[1] * v[1] + u[2] * v[2]
Norm2(u) == Dot(u, u)

\* _calculate_distance_through_point
CalculateDistanceThroughPoint(start_point, point, end_point) ==
  geodesic(start_point, point) + geodesic(point, end_point)

\* ------------------------------------------------------------ turnpoint.py
\* TaskTurnpoint.__init__
TaskTurnpoint(center, radius, goal_type, goal_line_length) ==
  [center |-> center, radius |-> radius, goal_type |-> goal_type,
   goal_line_length |-> goal_line_length]

\* index of the first azimuth of Azimuths[1..k] with the smallest two-leg sum
RECURSIVE BestAzimuthIndex(_, _, _, _, _)
BestAzimuthIndex(center, radius, start_point, end_point, k) ==
  IF k = 1 THEN 1
  ELSE LET b == BestAzimuthIndex(center, radius, start_point, end_point, k - 1)
           fb == CalculateDistanceThroughPoint(
                   start_point, geod_fwd(center, Azimuths[b], radius), end_point)
           fk == CalculateDistanceThroughPoint(
                   start_point, geod_fwd(center, Azimuths[k], radius), end_point)
       IN  IF fk < fb THEN k ELSE b

\* _find_optimal_cylinder_point: the perimeter point of smallest
\* distance(start, p) + distance(p, end)
FindOptimalCylinderPoint(center, radius, start_point, end_point) ==
  geod_fwd(center,
           Azimuths[BestAzimuthIndex(center, radius, start_point, end_point,
                                     Len(Azimuths))],
           radius)

\* goal_line_length of a turnpoint with the 400 m default applied
GoalLineLength(tp) ==
  IF tp.goal_line_length = None THEN DefaultGoalLineLength
  ELSE tp.goal_line_length[1]

\* the two endpoints of the goal line for an approach from prev_point
GoalLineEndpoints(tp, prev_point) ==
  LET forward_azimuth == geod_inv_azimuth(prev_point, tp.center)
      half_length == GoalLineLength(tp) \div 2
  IN  <<geod_fwd(tp.center, forward_azimuth + 90, half_length),
        geod_fwd(tp.center, forward_azimuth + 270, half_length)>>

\* the point of the goal line at parameter t = k / e1_to_e2_distance
GoalLinePoint(tp, prev_point, k) ==
  LET e == GoalLineEndpoints(tp, prev_point)
  IN  geod_fwd(e[1], geod_inv_azimuth(e[1], e[2]), k)

\* objective(t) of _find_optimal_goal_line_point compared for two line
\* points: |angle(prev -> p, forward azimuth) - 90| is smaller exactly when
\* |cos| of that angle is smaller; TRUE when p1 is strictly better than p2
GoalObjectiveLess(tp, prev_point, p1, p2) ==
  LET f  == AzimuthVector(geod_inv_azimuth(prev_point, tp.center))
      a1 == Direction(prev_point, p1)
      a2 == Direction(prev_point, p2)
  IN  Dot(a1, f) * Dot(a1, f) * Norm2(a2) < Dot(a2, f) * Dot(a2, f) * Norm2(a1)

RECURSIVE BestLineIndex(_, _, _)
BestLineIndex(tp, prev_point, k) ==
  IF k = 0 THEN 0
  ELSE LET b == BestLineIndex(tp, prev_point, k - 1)
       IN  IF GoalObjectiveLess(tp, prev_point,
                                GoalLinePoint(tp, prev_point, k),
                                GoalLinePoint(tp, prev_point, b))
           THEN k ELSE b

\* TaskTurnpoint._find_optimal_goal_line_point
FindOptimalGoalLinePoint(tp, prev_point, next_point) ==
  LET e == GoalLineEndpoints(tp, prev_point)
      endpoint1 == e[1]
      endpoint2 == e[2]
      e1_to_e2 == Direction(endpoint1, endpoint2)
      e1_to_prev == Direction(endpoint1, prev_point)
      e1_to_e2_distance == geodesic(endpoint1, endpoint2)
  IN  IF Dot(e1_to_e2, e1_to_prev) < 0
      THEN \* angle_diff > 90: the closest endpoint
           (IF geodesic(prev_point, endpoint1) < geodesic(prev_point, endpoint2)
            THEN endpoint1 ELSE endpoint2)
      ELSE GoalLinePoint(tp, prev_point,
                         BestLineIndex(tp, prev_point, e1_to_e2_distance))

\* TaskTurnpoint.optimal_point
optimal_point(tp, prev_point, next_point) ==
  IF tp.goal_type = "LINE"
  THEN FindOptimalGoalLinePoint(tp, prev_point, next_point)
  ELSE IF tp.radius = 0 THEN tp.center
  ELSE FindOptimalCylinderPoint(tp.center, tp.radius, prev_point, next_point)

\* the first k legs between consecutive centres
RECURSIVE CenterLegs(_, _)
CenterLegs(turnpoints, k) ==
  IF k < 1 THEN 0
  ELSE CenterLegs(turnpoints, k - 1)
       + geodesic(turnpoints[k].center, turnpoints[k + 1].center)

\* variant: the last leg is left out of the sum
distance_through_centers_SkipLast(turnpoints) ==
  IF Len(turnpoints) < 2 THEN 0 ELSE CenterLegs(turnpoints, Len(turnpoints) - 2)

\* distance_through_centers
distance_through_centers(turnpoints) ==
  IF Len(turnpoints) < 2 THEN 0 ELSE CenterLegs(turnpoints, Len(turnpoints) - 1)

\* ------------------------------------------------- optimization_config.py
\* get_optimization_config: an argument that is None takes the default
get_optimization_config(beam_width_arg, num_iterations_arg) ==
  [beam_width |-> IF beam_width_arg = None THEN DEFAULT_BEAM_WIDTH
                  ELSE beam_width_arg[1],
   num_iterations |-> IF num_iterations_arg = None THEN DEFAULT_NUM_ITERATIONS
                      ELSE num_iterations_arg[1]]

\* ------------------------------------------------- route_optimization.py
\* A DP stage is a dict in insertion order: a sequence of entries
\* [point, dist, parent] with pairwise different points.
Entry(point, dist, parent) == [point |-> point, dist |-> dist, parent |-> parent]

\* position of a key in a stage, 0 when the key is missing
KeyIndex(stage, point) ==
  IF \E k \in 1..Len(stage) : stage[k].point = point
  THEN CHOOSE k \in 1..Len(stage) : stage[k].point = point
  ELSE 0

\* new_candidates[optimal_point][0] of the defaultdict
StoredDistance(stage, point) ==
  IF KeyIndex(stage, point) = 0 THEN Inf ELSE stage[KeyIndex(stage, point)].dist

\* variant: the entry of a point is overwritten by every predecessor
KeepBest_Overwrite(stage, point, total_distance, prev_point) ==
  IF KeyIndex(stage, point) = 0
  THEN Append(stage, Entry(point, total_distance, prev_point))
  ELSE [stage EXCEPT ![KeyIndex(stage, point)] =
                       Entry(point, total_distance, prev_point)]

\* if total_distance < new_candidates[optimal_point][0]:
\*     new_candidates[optimal_point] = (total_distance, prev_point)
KeepBest(stage, point, total_distance, prev_point) ==
  IF total_distance < StoredDistance(stage, point)
  THEN IF KeyIndex(stage, point) = 0
       THEN Append(stage, Entry(point, total_distance, prev_point))
       ELSE [stage EXCEPT ![KeyIndex(stage, point)] =
                            Entry(point, total_distance, prev_point)]
  ELSE stage

\* variant: the route starts on the perimeter of turnpoint 0
InitDpStructure_OnPerimeter(turnpoints) ==
  [k \in 1..Len(turnpoints) |->
     IF k = 1
     THEN <<Entry(geod_fwd(turnpoints[1].center, 0, turnpoints[1].radius),
                  0, None)>>
     ELSE <<>>]

\* variant: stage 0 holds a second candidate north of the first turnpoint
InitDpStructure_TwoStarts(turnpoints) ==
  [k \in 1..Len(turnpoints) |->
     IF k = 1
     THEN <<Entry(turnpoints[1].center, 0, None),
            Entry(geod_fwd(turnpoints[1].center, 0, turnpoints[1].radius + 1),
                  0, None)>>
     ELSE <<>>]

\* _init_dp_structure: dp[0] = {turnpoints[0].center: (0.0, None)}, the
\* other stages empty
InitDpStructure(turnpoints) ==
  [k \in 1..Len(turnpoints) |->
     IF k = 1 THEN <<Entry(turnpoints[1].center, 0, None)>> ELSE <<>>]

\* seq[:k] of Python
PySliceTo(seq, k) ==
  IF k >= 0
  THEN SubSeq(seq, 1, IF k < Len(seq) THEN k ELSE Len(seq))
  ELSE SubSeq(seq, 1, IF Len(seq) + k > 0 THEN Len(seq) + k ELSE 0)

\* insert an entry into a sequence sorted by dist, after the entries that
\* are not larger (sorted() is stable)
RECURSIVE InsertSorted(_, _)
InsertSorted(sorted, e) ==
  IF sorted = <<>> THEN <<e>>
  ELSE IF sorted[Len(sorted)].dist <= e.dist THEN Append(sorted, e)
  ELSE Append(InsertSorted(SubSeq(sorted, 1, Len(sorted) - 1), e),
              sorted[Len(sorted)])

\* sorted(new_candidates.items(), key=lambda kv: kv[1][0])
RECURSIVE SortedByDistance(_)
SortedByDistance(stage) ==
  IF stage = <<>> THEN <<>>
  ELSE InsertSorted(SortedByDistance(SubSeq(stage, 1, Len(stage) - 1)),
                    stage[Len(stage)])

\* variant: the beam keeps one candidate less than beam_width
BeamPrune_OneLess(new_candidates, beam_width) ==
  IF Len(new_candidates) >= beam_width
  THEN PySliceTo(SortedByDistance(new_candidates), beam_width - 1)
  ELSE new_candidates

\* variant: the first beam_width candidates in insertion order are kept
BeamPrune_Unsorted(new_candidates, beam_width) ==
  IF Len(new_candidates) > beam_width
  THEN PySliceTo(new_candidates, beam_width)
  ELSE new_candidates

\* Beam search: keep only the best beam_width candidates
BeamPrune(new_candidates, beam_width) ==
  IF Len(new_candidates) > beam_width
  THEN PySliceTo(SortedByDistance(new_candidates), beam_width)
  ELSE new_candidates

\* the touch point _process_dp_stage computes for one predecessor
StageOptimalPoint(current_tp, prev_point, next_center) ==
  IF current_tp.goal_type = "LINE"
  THEN FindOptimalGoalLinePoint(current_tp, prev_point, next_center)
  ELSE IF current_tp.radius = 0 THEN current_tp.center
  ELSE optimal_point(current_tp, prev_point, next_center)

\* the touch point _process_dp_stage_with_refined_target computes
RefinedStageOptimalPoint(current_tp, prev_point, next_center) ==
  IF current_tp.radius = 0 THEN current_tp.center
  ELSE optimal_point(current_tp, prev_point, next_center)

\* variant: total_distance = leg_distance, the predecessor's distance dropped
RECURSIVE StageCandidates_LegOnly(_, _, _, _)
StageCandidates_LegOnly(prev_stage, current_tp, next_center, k) ==
  IF k = 0 THEN <<>>
  ELSE LET prev_point == prev_stage[k].point
           p == StageOptimalPoint(current_tp, prev_point, next_center)
       IN  KeepBest(StageCandidates_LegOnly(prev_stage, current_tp,
                                            next_center, k - 1),
                    p, geodesic(prev_point, p), prev_point)

\* variant: the parent stored is the touch point, not the predecessor
RECURSIVE StageCandidates_SelfParent(_, _, _, _)
StageCandidates_SelfParent(prev_stage, current_tp, next_center, k) ==
  IF k = 0 THEN <<>>
  ELSE LET prev_point == prev_stage[k].point
           p == StageOptimalPoint(current_tp, prev_point, next_center)
       IN  KeepBest(StageCandidates_SelfParent(prev_stage, current_tp,
                                               next_center, k - 1),
                    p, prev_stage[k].dist + geodesic(prev_point, p), p)

\* the loop over dp[i - 1].items() of _process_dp_stage, first k entries
RECURSIVE StageCandidates(_, _, _, _)
StageCandidates(prev_stage, current_tp, next_center, k) ==
  IF k = 0 THEN <<>>
  ELSE LET prev_point == prev_stage[k].point
           p == StageOptimalPoint(current_tp, prev_point, next_center)
       IN  KeepBest(StageCandidates(prev_stage, current_tp, next_center, k - 1),
                    p, prev_stage[k].dist + geodesic(prev_point, p), prev_point)

\* the same loop of _process_dp_stage_with_refined_target
RECURSIVE RefinedStageCandidates(_, _, _, _)
RefinedStageCandidates(prev_stage, current_tp, next_center, k) ==
  IF k = 0 THEN <<>>
  ELSE LET prev_point == prev_stage[k].point
           p == RefinedStageOptimalPoint(current_tp, prev_point, next_center)
       IN  KeepBest(RefinedStageCandidates(prev_stage, current_tp, next_center,
                                           k - 1),
                    p, prev_stage[k].dist + geodesic(prev_point, p), prev_point)

\* _process_dp_stage(dp, i, turnpoints, beam_width); stage i of the code is
\* index i + 1 here
ProcessDpStage(dpv, i, turnpoints, beam_width) ==
  LET current_tp == turnpoints[i + 1]
      next_center == IF i + 1 < Len(turnpoints) THEN turnpoints[i + 2].center
                     ELSE current_tp.center
  IN  BeamPrune(StageCandidates(dpv[i], current_tp, next_center, Len(dpv[i])),
                beam_width)

\* _process_dp_stage_with_refined_target(dp, i, turnpoints, next_target, ...)
ProcessDpStageWithRefinedTarget(dpv, i, turnpoints, next_target, beam_width) ==
  LET current_tp == turnpoints[i + 1]
      next_center ==
        IF next_target = None
        THEN (IF i + 1 < Len(turnpoints) THEN turnpoints[i + 2].center
              ELSE current_tp.center)
        ELSE next_target
  IN  BeamPrune(RefinedStageCandidates(dpv[i], current_tp, next_center,
                                       Len(dpv[i])),
                beam_width)

\* variant: every refinement stage looks ahead to a centre, as in pass 0
RefinedNextTarget_Centre(i, turnpoints, previous_route) ==
  IF i < Len(turnpoints) - 1 THEN turnpoints[i + 2].center
  ELSE turnpoints[i + 1].center

\* the look-ahead _compute_optimal_route_with_refined_targets passes to
\* stage i
RefinedNextTarget(i, turnpoints, previous_route) ==
  IF i < Len(turnpoints) - 1 /\ i < Len(previous_route) - 1
  THEN previous_route[i + 2]
  ELSE IF i < Len(turnpoints) THEN turnpoints[i + 1].center ELSE None

\* min(final_candidates.items(), key=lambda kv: kv[1][0]): the first entry
\* of smallest distance
RECURSIVE MinEntryIndex(_, _)
MinEntryIndex(stage, k) ==
  IF k = 1 THEN 1
  ELSE LET b == MinEntryIndex(stage, k - 1)
       IN  IF stage[k].dist < stage[b].dist THEN k ELSE b

MinEntry(stage) == stage[MinEntryIndex(stage, Len(stage))]

\* _backtrack_path: the path from stage 0 to current_point on stage i (code
\* index); <<>> when dp[i][current_point] raises KeyError on the way
RECURSIVE BacktrackFrom(_, _, _)
BacktrackFrom(dpv, current_point, i) ==
  IF i = 0 THEN <<current_point>>
  ELSE IF KeyIndex(dpv[i + 1], current_point) = 0 THEN <<>>
  ELSE LET parent_point == dpv[i + 1][KeyIndex(dpv[i + 1], current_point)].parent
           rest == BacktrackFrom(dpv, parent_point, i - 1)
       IN  IF rest = <<>> THEN <<>> ELSE Append(rest, current_point)

BacktrackPath(dpv, best_point, turnpoints) ==
  BacktrackFrom(dpv, best_point, Len(turnpoints) - 1)

\* _create_refined_turnpoints: TaskTurnpoint(tp.center[0], tp.center[1],
\* tp.radius), goal_type and goal_line_length take their defaults
CreateRefinedTurnpoints(turnpoints, previous_route) ==
  [k \in 1..Len(turnpoints) |->
     TaskTurnpoint(turnpoints[k].center, turnpoints[k].radius, "NONE", None)]

\* the (distance, route) a finished forward pass returns: (0.0, []) when the
\* last stage is empty, else the best final entry and its back-trace
PassResult(dpv, turnpoints) ==
  LET final_candidates == dpv[Len(turnpoints)]
  IN  IF final_candidates = <<>>
      THEN [distance |-> 0, route |-> <<>>, raised |-> FALSE]
      ELSE LET best == MinEntry(final_candidates)
               path == BacktrackPath(dpv, best.point, turnpoints)
           IN  [distance |-> best.dist, route |-> path, raised |-> path = <<>>]

\* the forward pass of _compute_optimal_route_with_beam_search from stage i
RECURSIVE ForwardPass(_, _, _, _)
ForwardPass(dpv, i, turnpoints, beam_width) ==
  IF i >= Len(turnpoints) THEN dpv
  ELSE ForwardPass([dpv EXCEPT ![i + 1] =
                      ProcessDpStage(dpv, i, turnpoints, beam_width)],
                   i + 1, turnpoints, beam_width)

\* _compute_optimal_route_with_beam_search(turnpoints, return_path=True)
ComputeOptimalRouteWithBeamSearch(turnpoints, beam_width) ==
  PassResult(ForwardPass(InitDpStructure(turnpoints), 1, turnpoints, beam_width),
             turnpoints)

\* the forward pass of _compute_optimal_route_with_refined_targets from
\* stage i
RECURSIVE RefinedForwardPass(_, _, _, _, _)
RefinedForwardPass(dpv, i, turnpoints, previous_route, beam_width) ==
  IF i >= Len(turnpoints) THEN dpv
  ELSE RefinedForwardPass(
         [dpv EXCEPT ![i + 1] =
            ProcessDpStageWithRefinedTarget(
              dpv, i, turnpoints,
              RefinedNextTarget(i, turnpoints, previous_route), beam_width)],
         i + 1, turnpoints, previous_route, beam_width)

\* _compute_optimal_route_with_refined_targets
ComputeOptimalRouteWithRefinedTargets(turnpoints, previous_route, beam_width) ==
  PassResult(RefinedForwardPass(InitDpStructure(turnpoints), 1, turnpoints,
                                previous_route, beam_width),
             turnpoints)

\* the refinement loop of calculate_iteratively_refined_route from the turn
\* "iteration" on; best is the (distance, route) pair held before the turn
RECURSIVE RefinementLoop(_, _, _, _, _)
RefinementLoop(turnpoints, cfg, iter, best, current) ==
  IF iter >= cfg.num_iterations THEN best
  ELSE \* new is the result of the pass, computed once
       CHOOSE out \in
         {IF new.raised THEN new
          ELSE IF new.distance < best.distance
          THEN RefinementLoop(turnpoints, cfg, iter + 1, new, new.route)
          ELSE best :
            new \in {ComputeOptimalRouteWithRefinedTargets(
                       CreateRefinedTurnpoints(turnpoints, current), current,
                       cfg.beam_width)}} : TRUE

\* calculate_iteratively_refined_route as a function of its arguments
CalculateIterativelyRefinedRoute(turnpoints, bw_arg, it_arg) ==
  LET cfg == get_optimization_config(bw_arg, it_arg)
  IN  IF Len(turnpoints) < 2
      THEN [distance |-> 0,
            route |-> [k \in 1..Len(turnpoints) |-> turnpoints[k].center],
            raised |-> FALSE]
      ELSE \* first is the result of pass 0, computed once
           CHOOSE out \in
             {IF first.raised THEN first
              ELSE RefinementLoop(turnpoints, cfg, 1, first, first.route) :
                first \in {ComputeOptimalRouteWithBeamSearch(
                             turnpoints, cfg.beam_width)}} : TRUE

\* variant: the early return taken only for an empty list
IsDegenerate_OffByOne(ts) == Len(ts) < 1

\* "if len(turnpoints) < 2" of calculate_iteratively_refined_route
IsDegenerate(ts) == Len(ts) < 2

\* ------------------------------------------------------------------ task.py
\* Turnpoint(radius, waypoint, type): waypoint is the (lat, lon) pair; type
\* "NONE" stands for None
Turnpoint(radius, waypoint, type) ==
  [radius |-> radius, waypoint |-> waypoint, type |-> type]

\* Goal(type, line_length): type "NONE" stands for None
Goal(type, line_length) == [type |-> type, line_length |-> line_length]

\* Goal.from_dict: "type" and "lineLength" are read when present
GoalFromDict(goal_data) == Goal(goal_data.type, goal_data.lineLength)

\* Task.__post_init__ after the dataclass constructor stored the fields:
\* the goal is created when missing, its type defaults to CYLINDER, and for
\* type LINE its line_length becomes float(last_tp.radius * 2)
TaskPostInit(turnpoints, goal) ==
  IF Len(turnpoints) = 0 THEN [turnpoints |-> turnpoints, goal |-> goal]
  ELSE LET last_tp == turnpoints[Len(turnpoints)]
           g0 == IF goal = None THEN Goal("NONE", None) ELSE goal[1]
           g1 == IF g0.type = "NONE" THEN Goal("CYLINDER", g0.line_length)
                 ELSE g0
           g2 == IF g1.type = "LINE"
                 THEN Goal("LINE", Some(last_tp.radius * 2))
                 ELSE g1
       IN  [turnpoints |-> turnpoints, goal |-> Some(g2)]

\* Task.from_dict: the goal is parsed (or created when there are
\* turnpoints), completed, and handed to the constructor
TaskFromDict(data) ==
  LET turnpoints == data.turnpoints
      goal == IF data.goal # None THEN Some(GoalFromDict(data.goal[1]))
              ELSE IF Len(turnpoints) > 0 THEN Some(Goal("NONE", None))
              ELSE None
      processed ==
        IF goal # None /\ Len(turnpoints) > 0
        THEN LET g1 == IF goal[1].type = "NONE"
                       THEN Goal("CYLINDER", goal[1].line_length)
                       ELSE goal[1]
             IN  IF g1.type = "LINE" /\ g1.line_length = None
                 THEN Some(Goal("LINE",
                                Some(turnpoints[Len(turnpoints)].radius * 2)))
                 ELSE Some(g1)
        ELSE goal
  IN  TaskPostInit(turnpoints, processed)

\* ---------------------------------------------------------- task_distances.py
\* goal_type of _task_to_turnpoints after "Process goal if there are
\* turnpoints"; "NONE" stands for None
AdapterGoalType(task) ==
  IF Len(task.turnpoints) > 0 /\ task.goal # None
  THEN (IF task.goal[1].type # "NONE" THEN task.goal[1].type ELSE "CYLINDER")
  ELSE "NONE"

\* goal_line_length of _task_to_turnpoints before the conversion loop
AdapterGoalLineLength(task) ==
  IF AdapterGoalType(task) = "LINE"
  THEN (IF task.goal[1].line_length # None THEN task.goal[1].line_length
        ELSE Some(task.turnpoints[Len(task.turnpoints)].radius * 2))
  ELSE None

\* variant: the goal line keeps the radius of its turnpoint
ConvertTurnpoint_KeepRadius(task, i) ==
  LET tp == task.turnpoints[i]
      goal_type == AdapterGoalType(task)
      goal_line_length == AdapterGoalLineLength(task)
  IN  IF i = Len(task.turnpoints)
      THEN (IF goal_type = "LINE"
            THEN TaskTurnpoint(tp.waypoint, tp.radius, goal_type,
                               IF goal_line_length = None /\ tp.radius > 0
                               THEN Some(tp.radius * 2) ELSE goal_line_length)
            ELSE TaskTurnpoint(tp.waypoint, tp.radius, goal_type, None))
      ELSE TaskTurnpoint(tp.waypoint, tp.radius, "NONE", None)

\* one turn of the conversion loop of _task_to_turnpoints (turnpoint i,
\* counted from 1)
ConvertTurnpoint(task, i) ==
  LET tp == task.turnpoints[i]
      goal_type == AdapterGoalType(task)
      goal_line_length == AdapterGoalLineLength(task)
  IN  IF i = Len(task.turnpoints)
      THEN (IF goal_type = "LINE"
            THEN TaskTurnpoint(tp.waypoint, 0, goal_type,
                               IF goal_line_length = None /\ tp.radius > 0
                               THEN Some(tp.radius * 2) ELSE goal_line_length)
            ELSE TaskTurnpoint(tp.waypoint, tp.radius, goal_type, None))
      ELSE TaskTurnpoint(tp.waypoint, tp.radius, "NONE", None)

\* _task_to_turnpoints
task_to_turnpoints(task) ==
  [i \in 1..Len(task.turnpoints) |-> ConvertTurnpoint(task, i)]

\* --------------------------------------------------------------- distance.py
\* optimized_distance(turnpoints, beam_width=..., num_iterations=...): the
\* distance calculate_iteratively_refined_route returns for the resolved
\* configuration
optimized_distance(turnpoints, bw_arg, it_arg) ==
  LET cfg == get_optimization_config(bw_arg, it_arg)
  IN  CalculateIterativelyRefinedRoute(turnpoints, Some(cfg.beam_width),
                                       Some(cfg.num_iterations)).distance

\* ------------------------------------------ task_distances.py: the report
\* a distance of the grid in metres
Metres(d) == d * 100

\* round(metres / 1000.0, 1), as a number of tenths of a kilometre
RoundKm(metres) == (metres + 50) \div 100

\* round(savings_km / center_km * 100, 1) of _calculate_savings, as a number
\* of tenths of a percent; 0 when center_km is 0
SavingsPercent(center_m, opt_m) ==
  IF center_m > 0
  THEN (2000 * (center_m - opt_m) + center_m) \div (2 * center_m)
  ELSE 0

\* the dictionary calculate_task_distances returns for fewer than two
\* turnpoints
EmptyReport ==
  [center_distance_km |-> 0, optimized_distance_km |-> 0, savings_km |-> 0,
   savings_percent |-> 0, turnpoints |-> <<>>]

\* cumulative_opt of _create_turnpoint_details for turnpoint i (counted
\* from 0), in metres: optimized_distance of the prefix with the beam width
\* of the report and no num_iterations argument
DetailCumulativeOpt(task_distance_turnpoints, i, beam_width) ==
  IF i > 0 /\ i + 1 >= 2
  THEN Metres(optimized_distance(SubSeq(task_distance_turnpoints, 1, i + 1),
                                 Some(beam_width), None))
  ELSE 0

\* one entry of turnpoint_details
TurnpointDetail(i, tp, cumulative_center_m, cumulative_opt_m) ==
  [index |-> i, lat_lon |-> tp.waypoint, radius |-> tp.radius,
   type |-> tp.type,
   cumulative_center_km |-> RoundKm(cumulative_center_m),
   cumulative_optimized_km |-> RoundKm(cumulative_opt_m)]

\* calculate_cumulative_distances(turnpoints, index, beam_width=...): the
\* pair (center_dist, opt_dist) in metres
calculate_cumulative_distances(turnpoints, index, bw_arg) ==
  IF index = 0 \/ Len(turnpoints) <= 1
  THEN <<0, 0>>
  ELSE LET partial_turnpoints ==
             SubSeq(turnpoints, 1,
                    IF index + 1 < Len(turnpoints) THEN index + 1
                    ELSE Len(turnpoints))
           cfg == get_optimization_config(bw_arg, None)
       IN  <<Metres(distance_through_centers(partial_turnpoints)),
             Metres(optimized_distance(partial_turnpoints,
                                       Some(cfg.beam_width), None))>>

\* ------------------------------------------------------ sss_calculations.py
\* config["angle_step"] of get_optimization_config(angle_step)
sss_angle_step(angle_step_arg) ==
  IF angle_step_arg = None THEN DEFAULT_ANGLE_STEP ELSE angle_step_arg[1]

\* the points of "for azimuth in range(azimuth, 360, angle_step)"
RECURSIVE PerimeterFrom(_, _, _)
PerimeterFrom(tp, angle_step, azimuth) ==
  IF azimuth >= FullTurn THEN <<>>
  ELSE <<geod_fwd(tp.center, azimuth, tp.radius)>>
         \o PerimeterFrom(tp, angle_step, azimuth + angle_step)

\* TaskTurnpoint.perimeter_points
perimeter_points(tp, angle_step) ==
  IF tp.goal_type = "LINE" THEN <<tp.center>>
  ELSE IF tp.radius = 0 THEN <<tp.center>>
  ELSE PerimeterFrom(tp, angle_step, 0)

\* a variant whose key is the leg from the takeoff only
SssKey_TakeoffLegOnly(takeoff_center, p, first_tp_after_sss_point) ==
  geodesic(takeoff_center, p)

\* the key of min(): geodesic(takeoff, p) + geodesic(p, first_tp_after_sss)
SssKey(takeoff_center, p, first_tp_after_sss_point) ==
  geodesic(takeoff_center, p) + geodesic(p, first_tp_after_sss_point)

\* index of the element min() returns among points[1..k]: the first one of
\* the smallest key
RECURSIVE MinKeyIndex(_, _, _, _)
MinKeyIndex(points, takeoff_center, first_tp_after_sss_point, k) ==
  IF k = 1 THEN 1
  ELSE LET b == MinKeyIndex(points, takeoff_center,
                            first_tp_after_sss_point, k - 1)
       IN  IF SssKey(takeoff_center, points[k], first_tp_after_sss_point)
              < SssKey(takeoff_center, points[b], first_tp_after_sss_point)
           THEN k ELSE b

\* optimized_route_coordinates of distance.py with the default configuration
optimized_route_coordinates(turnpoints) ==
  CalculateIterativelyRefinedRoute(turnpoints, None, None).route

\* _find_sss_turnpoint: the index (from 0) of the first turnpoint of type
\* SSS, None when there is none
find_sss_turnpoint(task_turnpoints) ==
  IF \E k \in 1..Len(task_turnpoints) : task_turnpoints[k].type = "SSS"
  THEN Some((CHOOSE k \in 1..Len(task_turnpoints) :
               /\ task_turnpoints[k].type = "SSS"
               /\ \A j \in 1..(k - 1) : task_turnpoints[j].type # "SSS") - 1)
  ELSE None

\* _get_first_tp_after_sss_point: the turnpoint after the SSS and
\* route_coordinates[1], or the centre when the route has one point or none
get_first_tp_after_sss_point(task_turnpoints, sss_index, route_coordinates) ==
  IF sss_index + 1 >= Len(task_turnpoints) THEN None
  ELSE LET next_tp == task_turnpoints[sss_index + 2]
       IN  Some([next_tp |-> next_tp.waypoint,
                 route_point |-> IF Len(route_coordinates) > 1
                                 THEN route_coordinates[2]
                                 ELSE next_tp.waypoint])

\* ---------------------------------------------------- utils/task_cache.py
\* the keys "task_data_<code>" of two task codes
CacheKeys == {"task_data_a", "task_data_b"}

\* {"value": value, "expires_at": expires_at}
CacheEntry(value, expires_at) == [value |-> value, expires_at |-> expires_at]

\* ttl of TaskCache.set: default_ttl when the argument is None
CacheTtl(ttl_arg) == IF ttl_arg = None THEN DEFAULT_TTL ELSE ttl_arg[1]

\* variant: get returns the value of an entry whatever its expiry time
CacheLookup_IgnoreExpiry(cachev, key, time) ==
  IF cachev[key] = None THEN None
  ELSE Some(cachev[key][1].value)

\* what TaskCache.get returns at the given time
CacheLookup(cachev, key, time) ==
  IF cachev[key] = None THEN None
  ELSE IF time > cachev[key][1].expires_at THEN None
  ELSE Some(cachev[key][1].value)

\* the cache without the entries for which current_time > expires_at
WithoutExpired(cachev, current_time) ==
  [k \in CacheKeys |->
     IF cachev[k] # None /\ current_time > cachev[k][1].expires_at
     THEN None ELSE cachev[k]]

\* TaskCache.size
CacheSize(cachev) == Cardinality({k \in CacheKeys : cachev[k] # None})

\* ------------------------------------------------------------------ state
VARIABLES
  turnpoints,          \* argument: the caller's list of TaskTurnpoint
  beam_width_arg,      \* argument: None or Some(beam width)
  num_iterations_arg,  \* argument: None or Some(iteration count)
  pc,                  \* position in calculate_iteratively_refined_route
  pass_turnpoints,     \* the list the running pass works on
  dp,                  \* DP stages of the running pass
  stage,               \* index i of the next stage of the forward pass
  current_route,
  best_distance,
  best_route,
  iteration,           \* loop variable of the refinement loop
  distances,           \* d_0, d_1, ... : the distance of every pass run
  result,              \* the returned (distance, route)
  outcome,             \* "running", "returned" or the exception raised
  \* task.py and _task_to_turnpoints
  task_data,           \* the parsed JSON of a task: turnpoints and goal
  task,                \* the Task object built from it
  adapter_result,      \* the list _task_to_turnpoints returns
  tpc,                 \* "idle", "data", "task" or "converted"
  \* calculate_task_distances and calculate_cumulative_distances
  report_args,         \* arguments: task, beam_width, num_iterations
  report_turnpoints,   \* turnpoints = _task_to_turnpoints(task)
  center_dist,         \* metres
  opt_dist,            \* metres
  cumulative_center,   \* metres, loop variable of _create_turnpoint_details
  turnpoint_details,
  report,              \* the dictionary calculate_task_distances returns
  cumulative,          \* index and result of calculate_cumulative_distances
  rpc,                 \* position in calculate_task_distances
  \* calculate_optimal_sss_entry_point
  sss_args,            \* arguments of the call
  sss_perimeter,       \* the perimeter points generated
  best_sss_point,      \* None until the call returned it
  spc,                 \* "idle", "call", "perimeter" or "done"
  \* concurrent calls of calculate_iteratively_refined_route
  calls,               \* thread -> the locals of its call
  \* one call of _process_dp_stage or _process_dp_stage_with_refined_target
  stage_args,          \* dp[i - 1], turnpoints[i], look-ahead, beam width
  new_candidates,      \* the dict the loop over dp[i - 1] fills
  stage_result,        \* the dict returned
  gpc,                 \* "idle", "call", "candidates" or "done"
  \* calculate_sss_info
  info_args,           \* task_turnpoints, route_coordinates, angle_step
  helper_args,         \* None, or the arguments given to the SSS helper
  sss_info,            \* None, or the dictionary returned
  ipc,                 \* "idle", "call", "helper" or "done"
  \* task_cache.py and cleanup_old_task_data_from_cache
  cache,               \* TaskCache._cache: key -> None or Some(entry)
  now,                 \* time.time()
  stored,              \* history: key -> the last set not deleted or cleared
  cleanup_time,        \* current_time of a cleanup_expired waiting for the lock
  last_get,            \* None, or the key and result of the last get
  cleanup_call         \* None, or max_items and current_size of the last call

optvars == <<turnpoints, beam_width_arg, num_iterations_arg, pc,
             pass_turnpoints, dp, stage, current_route, best_distance,
             best_route, iteration, distances, result, outcome>>
taskvars == <<task_data, task, adapter_result, tpc>>
reportvars == <<report_args, report_turnpoints, center_dist, opt_dist,
                cumulative_center, turnpoint_details, report, cumulative, rpc>>
sssvars == <<sss_args, sss_perimeter, best_sss_point, spc>>
threadvars == <<calls>>
stagevars == <<stage_args, new_candidates, stage_result, gpc>>
infovars == <<info_args, helper_args, sss_info, ipc>>
cachevars == <<cache, now, stored, cleanup_time, last_get, cleanup_call>>
auxvars == <<taskvars, reportvars, sssvars, threadvars,
             stagevars, infovars, cachevars>>
vars == <<optvars, auxvars>>

config == get_optimization_config(beam_width_arg, num_iterations_arg)

\* ----------------------------------------------------------------- inputs
Centers == {<<0, y>> : y \in 0..MaxCoord}
\* a goal line has radius 0 when _task_to_turnpoints built it; a caller of
\* the library may pass one with a radius
GoalLineRadii == {0, 1}
\* goal_line_length is None (the 400 m default applies)
GoalLineLengths == {None}

Cylinders ==
  {TaskTurnpoint(c, r, "NONE", None) : c \in Centers, r \in 0..MaxRadius}

GoalLines ==
  {TaskTurnpoint(c, r, "LINE", l) :
     c \in Centers, r \in GoalLineRadii, l \in GoalLineLengths}

\* turnpoint lists of at most MaxN cylinders whose last element may be a
\* goal line
TurnpointLists ==
  UNION {{ts \in [1..n -> Cylinders \cup GoalLines] :
            \A k \in 1..(n - 1) : ts[k].goal_type = "NONE"} : n \in 0..MaxN}

BeamWidthArgs == {None} \cup {Some(w) : w \in 1..MaxBeam}
NumIterationsArgs == {None} \cup {Some(k) : k \in 1..MaxIter}

\* the task layer at rest
TaskIdle ==
  /\ task_data = [turnpoints |-> <<>>, goal |-> None]
  /\ task = [turnpoints |-> <<>>, goal |-> None]
  /\ adapter_result = <<>>
  /\ tpc = "idle"

\* no DP stage is processed on its own
StageIdle ==
  /\ stage_args = [prev_stage |-> <<>>,
                   current_tp |-> TaskTurnpoint(<<0, 0>>, 0, "NONE", None),
                   next_center |-> <<0, 0>>, beam_width |-> 1,
                   refined |-> FALSE]
  /\ new_candidates = <<>>
  /\ stage_result = <<>>
  /\ gpc = "idle"

\* no SSS information is computed
SssInfoIdle ==
  /\ info_args = [task_turnpoints |-> <<>>, route_coordinates |-> <<>>,
                  angle_step |-> None]
  /\ helper_args = None
  /\ sss_info = None
  /\ ipc = "idle"

\* the cache as created: _task_cache = TaskCache(), nothing stored
CacheIdle ==
  /\ cache = [k \in CacheKeys |-> None]
  /\ now = 0
  /\ stored = [k \in CacheKeys |-> None]
  /\ cleanup_time = None
  /\ last_get = None
  /\ cleanup_call = None

\* no thread runs a call
ThreadsIdle == calls = <<>>

\* no call of the SSS helper
SssIdle ==
  /\ sss_args = [sss_turnpoint |-> TaskTurnpoint(<<0, 0>>, 0, "NONE", None),
                 takeoff_center |-> <<0, 0>>,
                 first_tp_after_sss_point |-> <<0, 0>>,
                 angle_step |-> None]
  /\ sss_perimeter = <<>>
  /\ best_sss_point = None
  /\ spc = "idle"

\* the report layer at rest
ReportIdle ==
  /\ report_args = [task |-> [turnpoints |-> <<>>, goal |-> None],
                    beam_width |-> None, num_iterations |-> None]
  /\ report_turnpoints = <<>>
  /\ center_dist = 0
  /\ opt_dist = 0
  /\ cumulative_center = 0
  /\ turnpoint_details = <<>>
  /\ report = EmptyReport
  /\ cumulative = [index |-> 0, center_dist |-> 0, opt_dist |-> 0]
  /\ rpc = "idle"

Init ==
  /\ turnpoints \in TurnpointLists
  /\ beam_width_arg \in BeamWidthArgs
  /\ num_iterations_arg \in NumIterationsArgs
  /\ pc = "call"
  /\ pass_turnpoints = <<>>
  /\ dp = <<>>
  /\ stage = 0
  /\ current_route = <<>>
  /\ best_distance = 0
  /\ best_route = <<>>
  /\ iteration = 0
  /\ distances = <<>>
  /\ result = [distance |-> 0, route |-> <<>>]
  /\ outcome = "running"
  /\ TaskIdle
  /\ ReportIdle
  /\ SssIdle
  /\ ThreadsIdle
  /\ StageIdle
  /\ SssInfoIdle
  /\ CacheIdle

\* ---------------------------------------------------------------- actions
\* calculate_iteratively_refined_route, len(turnpoints) < 2: return 0.0 and
\* the centres
ReturnDegenerate ==
  /\ pc = "call"
  /\ IsDegenerate(turnpoints)
  /\ result' = [distance |-> 0,
                route |-> [k \in 1..Len(turnpoints) |-> turnpoints[k].center]]
  /\ outcome' = "returned"
  /\ pc' = "done"
  /\ UNCHANGED <<turnpoints, beam_width_arg, num_iterations_arg,
                 pass_turnpoints, dp, stage, current_route, best_distance,
                 best_route, iteration, distances>>
  /\ UNCHANGED auxvars

\* _compute_optimal_route_dp -> _compute_optimal_route_with_beam_search:
\* dp = _init_dp_structure(turnpoints)
StartInitialPass ==
  /\ pc = "call"
  /\ ~IsDegenerate(turnpoints)
  /\ pass_turnpoints' = turnpoints
  /\ dp' = InitDpStructure(turnpoints)
  /\ stage' = 1
  /\ pc' = "pass0"
  /\ UNCHANGED <<turnpoints, beam_width_arg, num_iterations_arg, current_route,
                 best_distance, best_route, iteration, distances, result,
                 outcome>>
  /\ UNCHANGED auxvars

\* one turn of "for i in range(1, len(turnpoints))" of the initial pass
InitialDpStage ==
  /\ pc = "pass0"
  /\ stage < Len(pass_turnpoints)
  /\ dp' = [dp EXCEPT ![stage + 1] =
              ProcessDpStage(dp, stage, pass_turnpoints, config.beam_width)]
  /\ stage' = stage + 1
  /\ UNCHANGED <<turnpoints, beam_width_arg, num_iterations_arg, pc,
                 pass_turnpoints, current_route, best_distance, best_route,
                 iteration, distances, result, outcome>>
  /\ UNCHANGED auxvars

\* variant: best_distance starts at infinity instead of at d_0
FinishInitialPass_InfiniteBest ==
  /\ pc = "pass0"
  /\ stage = Len(pass_turnpoints)
  /\ LET r == PassResult(dp, pass_turnpoints)
     IN  IF r.raised
         THEN /\ outcome' = "KeyError"
              /\ pc' = "done"
              /\ UNCHANGED <<current_route, best_distance, best_route,
                             iteration, distances>>
         ELSE /\ current_route' = r.route
              /\ best_distance' = Inf
              /\ best_route' = r.route
              /\ distances' = <<r.distance>>
              /\ iteration' = 1
              /\ pc' = "loop"
              /\ UNCHANGED outcome
  /\ UNCHANGED <<turnpoints, beam_width_arg, num_iterations_arg,
                 pass_turnpoints, dp, stage, result>>
  /\ UNCHANGED auxvars

\* end of the initial pass: best final entry, back-trace, "Store initial
\* results"
FinishInitialPass ==
  /\ pc = "pass0"
  /\ stage = Len(pass_turnpoints)
  /\ LET r == PassResult(dp, pass_turnpoints)
     IN  IF r.raised
         THEN /\ outcome' = "KeyError"
              /\ pc' = "done"
              /\ UNCHANGED <<current_route, best_distance, best_route,
                             iteration, distances>>
         ELSE /\ current_route' = r.route
              /\ best_distance' = r.distance
              /\ best_route' = r.route
              /\ distances' = <<r.distance>>
              /\ iteration' = 1
              /\ pc' = "loop"
              /\ UNCHANGED outcome
  /\ UNCHANGED <<turnpoints, beam_width_arg, num_iterations_arg,
                 pass_turnpoints, dp, stage, result>>
  /\ UNCHANGED auxvars

\* variant: the refined turnpoints are written into the caller's list
StartRefinementPass_InPlace ==
  /\ pc = "loop"
  /\ iteration < config.num_iterations
  /\ turnpoints' = CreateRefinedTurnpoints(turnpoints, current_route)
  /\ pass_turnpoints' = CreateRefinedTurnpoints(turnpoints, current_route)
  /\ dp' = InitDpStructure(CreateRefinedTurnpoints(turnpoints, current_route))
  /\ stage' = 1
  /\ pc' = "refine"
  /\ UNCHANGED <<beam_width_arg, num_iterations_arg, current_route,
                 best_distance, best_route, iteration, distances, result,
                 outcome>>
  /\ UNCHANGED auxvars

\* "for iteration in range(1, num_iterations)": one more turn; the pass
\* works on _create_refined_turnpoints(turnpoints, current_route)
StartRefinementPass ==
  /\ pc = "loop"
  /\ iteration < config.num_iterations
  /\ pass_turnpoints' = CreateRefinedTurnpoints(turnpoints, current_route)
  /\ dp' = InitDpStructure(CreateRefinedTurnpoints(turnpoints, current_route))
  /\ stage' = 1
  /\ pc' = "refine"
  /\ UNCHANGED <<turnpoints, beam_width_arg, num_iterations_arg, current_route,
                 best_distance, best_route, iteration, distances, result,
                 outcome>>
  /\ UNCHANGED auxvars

\* one turn of the forward pass of _compute_optimal_route_with_refined_targets
RefinedDpStage ==
  /\ pc = "refine"
  /\ stage < Len(pass_turnpoints)
  /\ dp' = [dp EXCEPT ![stage + 1] =
              ProcessDpStageWithRefinedTarget(
                dp, stage, pass_turnpoints,
                RefinedNextTarget(stage, pass_turnpoints, current_route),
                config.beam_width)]
  /\ stage' = stage + 1
  /\ UNCHANGED <<turnpoints, beam_width_arg, num_iterations_arg, pc,
                 pass_turnpoints, current_route, best_distance, best_route,
                 iteration, distances, result, outcome>>
  /\ UNCHANGED auxvars

\* variant: an improving pass replaces best_distance but not best_route
FinishRefinementPass_StaleRoute ==
  /\ pc = "refine"
  /\ stage = Len(pass_turnpoints)
  /\ LET r == PassResult(dp, pass_turnpoints)
     IN  IF r.raised
         THEN /\ outcome' = "KeyError"
              /\ pc' = "done"
              /\ UNCHANGED <<current_route, best_distance, best_route,
                             iteration, distances>>
         ELSE /\ distances' = Append(distances, r.distance)
              /\ UNCHANGED outcome
              /\ IF r.distance < best_distance
                 THEN /\ best_distance' = r.distance
                      /\ current_route' = r.route
                      /\ iteration' = iteration + 1
                      /\ pc' = "loop"
                      /\ UNCHANGED best_route
                 ELSE /\ pc' = "break"
                      /\ UNCHANGED <<best_distance, best_route, current_route,
                                     iteration>>
  /\ UNCHANGED <<turnpoints, beam_width_arg, num_iterations_arg,
                 pass_turnpoints, dp, stage, result>>
  /\ UNCHANGED auxvars

\* variant: the loop goes on after a pass that did not improve
FinishRefinementPass_NoBreak ==
  /\ pc = "refine"
  /\ stage = Len(pass_turnpoints)
  /\ LET r == PassResult(dp, pass_turnpoints)
     IN  IF r.raised
         THEN /\ outcome' = "KeyError"
              /\ pc' = "done"
              /\ UNCHANGED <<current_route, best_distance, best_route,
                             iteration, distances>>
         ELSE /\ distances' = Append(distances, r.distance)
              /\ UNCHANGED outcome
              /\ iteration' = iteration + 1
              /\ pc' = "loop"
              /\ IF r.distance < best_distance
                 THEN /\ best_distance' = r.distance
                      /\ best_route' = r.route
                      /\ current_route' = r.route
                 ELSE UNCHANGED <<best_distance, best_route, current_route>>
  /\ UNCHANGED <<turnpoints, beam_width_arg, num_iterations_arg,
                 pass_turnpoints, dp, stage, result>>
  /\ UNCHANGED auxvars

\* end of a refinement pass and "Check for improvement"
FinishRefinementPass ==
  /\ pc = "refine"
  /\ stage = Len(pass_turnpoints)
  /\ LET r == PassResult(dp, pass_turnpoints)
     IN  IF r.raised
         THEN /\ outcome' = "KeyError"
              /\ pc' = "done"
              /\ UNCHANGED <<current_route, best_distance, best_route,
                             iteration, distances>>
         ELSE /\ distances' = Append(distances, r.distance)
              /\ UNCHANGED outcome
              /\ IF r.distance < best_distance
                 THEN /\ best_distance' = r.distance
                      /\ best_route' = r.route
                      /\ current_route' = r.route
                      /\ iteration' = iteration + 1
                      /\ pc' = "loop"
                 ELSE /\ pc' = "break"
                      /\ UNCHANGED <<best_distance, best_route, current_route,
                                     iteration>>
  /\ UNCHANGED <<turnpoints, beam_width_arg, num_iterations_arg,
                 pass_turnpoints, dp, stage, result>>
  /\ UNCHANGED auxvars

\* "return best_distance, best_route" after the loop ran out or broke
ReturnBest ==
  /\ \/ pc = "loop" /\ iteration >= config.num_iterations
     \/ pc = "break"
  /\ result' = [distance |-> best_distance, route |-> best_route]
  /\ outcome' = "returned"
  /\ pc' = "done"
  /\ UNCHANGED <<turnpoints, beam_width_arg, num_iterations_arg,
                 pass_turnpoints, dp, stage, current_route, best_distance,
                 best_route, iteration, distances>>
  /\ UNCHANGED auxvars

Next ==
  \/ ReturnDegenerate
  \/ StartInitialPass
  \/ InitialDpStage
  \/ FinishInitialPass
  \/ StartRefinementPass
  \/ RefinedDpStage
  \/ FinishRefinementPass
  \/ ReturnBest

Spec == Init /\ [][Next]_vars

\* the optimizer at rest, for the specifications of the other layers
OptimizerIdle ==
  /\ turnpoints = <<>>
  /\ beam_width_arg = None
  /\ num_iterations_arg = None
  /\ pc = "idle"
  /\ pass_turnpoints = <<>>
  /\ dp = <<>>
  /\ stage = 0
  /\ current_route = <<>>
  /\ best_distance = 0
  /\ best_route = <<>>
  /\ iteration = 0
  /\ distances = <<>>
  /\ result = [distance |-> 0, route |-> <<>>]
  /\ outcome = "running"

\* ------------------------------------- the optimizer called with any input
\* calculate_iteratively_refined_route checks neither its turnpoints nor
\* its configuration: a caller may pass a goal line at any index, a goal
\* line of length 0, and any integers as beam width and iteration count
AnyGoalLines ==
  {TaskTurnpoint(c, r, "LINE", l) :
     c \in Centers, r \in GoalLineRadii, l \in {None, Some(0)}}

AnyTurnpointLists ==
  UNION {[1..n -> Cylinders \cup AnyGoalLines] : n \in 2..MaxN}

AnyBeamWidthArgs == {None} \cup {Some(w) : w \in -1..MaxBeam}
AnyNumIterationsArgs == {None} \cup {Some(k) : k \in 0..MaxIter}

InitUnchecked ==
  /\ turnpoints \in AnyTurnpointLists
  /\ beam_width_arg \in AnyBeamWidthArgs
  /\ num_iterations_arg \in AnyNumIterationsArgs
  /\ pc = "call"
  /\ pass_turnpoints = <<>>
  /\ dp = <<>>
  /\ stage = 0
  /\ current_route = <<>>
  /\ best_distance = 0
  /\ best_route = <<>>
  /\ iteration = 0
  /\ distances = <<>>
  /\ result = [distance |-> 0, route |-> <<>>]
  /\ outcome = "running"
  /\ TaskIdle
  /\ ReportIdle
  /\ SssIdle
  /\ ThreadsIdle
  /\ StageIdle
  /\ SssInfoIdle
  /\ CacheIdle

\* the steps of the call that a list of two or more turnpoints can take
NextUnchecked ==
  \/ StartInitialPass
  \/ InitialDpStage
  \/ FinishInitialPass
  \/ StartRefinementPass
  \/ RefinedDpStage
  \/ FinishRefinementPass
  \/ ReturnBest

SpecUnchecked == InitUnchecked /\ [][NextUnchecked]_vars

\* ------------------------------------------- task construction and adapter
\* turnpoint tags of a task file ("NONE": no "type" key)
TurnpointTypes == {"NONE", "SSS", "ESS"}
\* "type" of the goal in a task file ("NONE": no "type" key)
GoalTypes == {"NONE", "CYLINDER", "LINE"}
\* "lineLength" of the goal in a task file (None: no such key); 400 m is 4
DataLineLengths == {None, Some(4)}

DataTurnpoints ==
  {Turnpoint(r, c, t) : r \in 0..MaxRadius, c \in Centers, t \in TurnpointTypes}

DataGoals ==
  {None} \cup {Some([type |-> t, lineLength |-> l]) :
                 t \in GoalTypes, l \in DataLineLengths}

\* task files of at most MaxTaskN turnpoints
TaskData ==
  UNION {[turnpoints : [1..n -> DataTurnpoints], goal : DataGoals] :
           n \in 0..MaxTaskN}

InitTask ==
  /\ task_data \in TaskData
  /\ task = [turnpoints |-> <<>>, goal |-> None]
  /\ adapter_result = <<>>
  /\ tpc = "data"
  /\ OptimizerIdle
  /\ ReportIdle
  /\ SssIdle
  /\ ThreadsIdle
  /\ StageIdle
  /\ SssInfoIdle
  /\ CacheIdle

\* Task.from_dict(data)
ParseTask ==
  /\ tpc = "data"
  /\ task' = TaskFromDict(task_data)
  /\ tpc' = "task"
  /\ UNCHANGED <<task_data, adapter_result, optvars, reportvars,
                 sssvars, threadvars, stagevars, infovars, cachevars>>

\* Task(task_type, version, turnpoints, goal=Goal(type, line_length)): the
\* caller builds the goal and the constructor runs __post_init__
ConstructTask ==
  /\ tpc = "data"
  /\ task' = TaskPostInit(task_data.turnpoints,
                          IF task_data.goal = None THEN None
                          ELSE Some(Goal(task_data.goal[1].type,
                                         task_data.goal[1].lineLength)))
  /\ tpc' = "task"
  /\ UNCHANGED <<task_data, adapter_result, optvars, reportvars,
                 sssvars, threadvars, stagevars, infovars, cachevars>>

\* _task_to_turnpoints(task)
TaskToTurnpoints ==
  /\ tpc = "task"
  /\ adapter_result' = task_to_turnpoints(task)
  /\ tpc' = "converted"
  /\ UNCHANGED <<task_data, task, optvars, reportvars, sssvars, threadvars,
                 stagevars, infovars, cachevars>>

NextTask ==
  \/ ParseTask
  \/ ConstructTask
  \/ TaskToTurnpoints

SpecTask == InitTask /\ [][NextTask]_vars

\* ------------------------------------------------- the distance report
\* task files of the report: untagged turnpoints that are points or
\* cylinders of the largest radius, no goal or a LINE goal
ReportData ==
  UNION {[turnpoints : [1..n -> {Turnpoint(r, c, "NONE") :
                                   r \in {0, MaxRadius}, c \in Centers}],
          goal : {None, Some([type |-> "LINE", lineLength |-> None])}] :
           n \in 0..MaxN}

\* beam_width and num_iterations of the report: the default, or given
ReportBeamWidthArgs == {None, Some(MaxBeam)}
ReportNumIterationsArgs == {None, Some(1), Some(MaxIter)}

InitReport ==
  /\ report_args \in [task : {TaskFromDict(d) : d \in ReportData},
                      beam_width : ReportBeamWidthArgs,
                      num_iterations : ReportNumIterationsArgs]
  /\ report_turnpoints = <<>>
  /\ center_dist = 0
  /\ opt_dist = 0
  /\ cumulative_center = 0
  /\ turnpoint_details = <<>>
  /\ report = EmptyReport
  /\ cumulative = [index |-> 0, center_dist |-> 0, opt_dist |-> 0]
  /\ rpc = "call"
  /\ OptimizerIdle
  /\ TaskIdle
  /\ SssIdle
  /\ ThreadsIdle
  /\ StageIdle
  /\ SssInfoIdle
  /\ CacheIdle

report_config ==
  get_optimization_config(report_args.beam_width, report_args.num_iterations)

\* calculate_task_distances: turnpoints = _task_to_turnpoints(task), fewer
\* than two of them
ReportDegenerate ==
  /\ rpc = "call"
  /\ Len(task_to_turnpoints(report_args.task)) < 2
  /\ report_turnpoints' = task_to_turnpoints(report_args.task)
  /\ report' = EmptyReport
  /\ rpc' = "done"
  /\ UNCHANGED <<report_args, center_dist, opt_dist, cumulative_center,
                 turnpoint_details, cumulative, optvars, taskvars,
                 sssvars, threadvars, stagevars, infovars, cachevars>>

\* calculate_task_distances: turnpoints = _task_to_turnpoints(task), two or
\* more of them
ReportConvert ==
  /\ rpc = "call"
  /\ Len(task_to_turnpoints(report_args.task)) >= 2
  /\ report_turnpoints' = task_to_turnpoints(report_args.task)
  /\ rpc' = "center"
  /\ UNCHANGED <<report_args, center_dist, opt_dist, cumulative_center,
                 turnpoint_details, report, cumulative, optvars, taskvars,
                 sssvars, threadvars, stagevars, infovars, cachevars>>

\* center_dist = distance_through_centers(distance_turnpoints)
ReportCenterDistance ==
  /\ rpc = "center"
  /\ center_dist' = Metres(distance_through_centers(report_turnpoints))
  /\ rpc' = "optimize"
  /\ UNCHANGED <<report_args, report_turnpoints, opt_dist, cumulative_center,
                 turnpoint_details, report, cumulative, optvars, taskvars,
                 sssvars, threadvars, stagevars, infovars, cachevars>>

\* opt_dist = optimized_distance(distance_turnpoints, beam_width=...,
\* num_iterations=...)
ReportOptimizedDistance ==
  /\ rpc = "optimize"
  /\ opt_dist' = Metres(optimized_distance(report_turnpoints,
                                           Some(report_config.beam_width),
                                           Some(report_config.num_iterations)))
  /\ rpc' = "details"
  /\ UNCHANGED <<report_args, report_turnpoints, center_dist,
                 cumulative_center, turnpoint_details, report, cumulative,
                 optvars, taskvars, sssvars, threadvars, stagevars, infovars,
                 cachevars>>

\* one turn of the loop of _create_turnpoint_details(task.turnpoints,
\* turnpoints, angle_step, beam_width)
ReportTurnpointDetail ==
  /\ rpc = "details"
  /\ Len(turnpoint_details) < Len(report_turnpoints)
  /\ LET i == Len(turnpoint_details)
         leg == IF i > 0
                THEN Metres(geodesic(report_turnpoints[i].center,
                                     report_turnpoints[i + 1].center))
                ELSE 0
     IN  /\ cumulative_center' = cumulative_center + leg
         /\ turnpoint_details' =
              Append(turnpoint_details,
                     TurnpointDetail(i, report_args.task.turnpoints[i + 1],
                                     cumulative_center + leg,
                                     DetailCumulativeOpt(
                                       report_turnpoints, i,
                                       report_config.beam_width)))
  /\ UNCHANGED <<report_args, report_turnpoints, center_dist, opt_dist,
                 report, cumulative, rpc, optvars, taskvars,
                 sssvars, threadvars, stagevars, infovars, cachevars>>

\* the return of calculate_task_distances
ReturnReport ==
  /\ rpc = "details"
  /\ Len(turnpoint_details) = Len(report_turnpoints)
  /\ report' = [center_distance_km |-> RoundKm(center_dist),
                optimized_distance_km |-> RoundKm(opt_dist),
                savings_km |-> RoundKm(center_dist - opt_dist),
                savings_percent |-> SavingsPercent(center_dist, opt_dist),
                turnpoints |-> turnpoint_details]
  /\ rpc' = "done"
  /\ UNCHANGED <<report_args, report_turnpoints, center_dist, opt_dist,
                 cumulative_center, turnpoint_details, cumulative, optvars,
                 taskvars,
                 sssvars, threadvars, stagevars, infovars, cachevars>>

\* calculate_cumulative_distances(turnpoints, index, beam_width=...) on the
\* turnpoints of the reported task
CumulativeQuery ==
  /\ rpc = "done"
  /\ \E index \in 0..(Len(report_turnpoints) - 1) :
       LET r == calculate_cumulative_distances(report_turnpoints, index,
                                               report_args.beam_width)
       IN  cumulative' = [index |-> index, center_dist |-> r[1],
                          opt_dist |-> r[2]]
  /\ rpc' = "queried"
  /\ UNCHANGED <<report_args, report_turnpoints, center_dist, opt_dist,
                 cumulative_center, turnpoint_details, report, optvars,
                 taskvars, sssvars, threadvars, stagevars, infovars,
                 cachevars>>

NextReport ==
  \/ ReportDegenerate
  \/ ReportConvert
  \/ ReportCenterDistance
  \/ ReportOptimizedDistance
  \/ ReportTurnpointDetail
  \/ ReturnReport
  \/ CumulativeQuery

SpecReport == InitReport /\ [][NextReport]_vars

\* --------------------------------------------------------------- measures
\* sum of the leg distances between consecutive points of a route
RECURSIVE RouteLegs(_, _)
RouteLegs(route, k) ==
  IF k < 1 THEN 0
  ELSE RouteLegs(route, k - 1) + geodesic(route[k], route[k + 1])

RouteLength(route) == RouteLegs(route, Len(route) - 1)

RECURSIVE MinOf(_, _)
MinOf(ds, k) ==
  IF k = 1 THEN ds[1]
  ELSE IF ds[k] < MinOf(ds, k - 1) THEN ds[k] ELSE MinOf(ds, k - 1)

AllCylinders(ts) == \A k \in 1..Len(ts) : ts[k].goal_type = "NONE"

Returned == pc = "done" /\ outcome = "returned"

\* a run of at least two passes whose refinement improved on pass 0
RefinementImproved ==
  Returned /\ Len(distances) >= 2 /\ result.distance < distances[1]

\* ----------------------------------------------------------------- claims
\* C1: for n >= 2 cylinders with radii >= 0, wherever the centres lie, the
\* distance optimize returns is never greater than distance_through_centers
\* of the same list.
C1_NeverAboveCentreDistance ==
  (Returned /\ Len(turnpoints) >= 2 /\ AllCylinders(turnpoints))
    => result.distance <= distance_through_centers(turnpoints)

\* C2: optimize called with an empty turnpoint list raises EmptyTurnpoints
\* instead of returning a result.
C2_EmptyListRaises ==
  (pc = "done" /\ Len(turnpoints) = 0) => outcome = "EmptyTurnpoints"

\* C3: optimize called with exactly one turnpoint T does not raise and
\* returns distance 0.0 with the route [T.centre]; no DP pass and no
\* refinement pass is run.
C3_SingleTurnpoint ==
  (pc = "done" /\ Len(turnpoints) = 1)
    => /\ outcome = "returned"
       /\ result = [distance |-> 0, route |-> <<turnpoints[1].center>>]
       /\ distances = <<>>
       /\ dp = <<>>

C3_Witness ==
  pc = "done" /\ Len(turnpoints) = 1 /\ turnpoints[1].radius > 0

\* C4: for n >= 2 and a valid configuration, the distance optimize returns
\* equals the sum of the leg distances of the route it returns; the best
\* distance and the best route always come from the same pass.
C4_DistanceIsRouteLength ==
  /\ (Returned /\ Len(turnpoints) >= 2)
       => result.distance = RouteLength(result.route)
  /\ pc \in {"loop", "refine", "break"}
       => best_distance = RouteLength(best_route)

C4_Witness ==
  RefinementImproved /\ Len(distances) >= 3 /\ result.distance > 0

\* C5: for n >= 1 the first point of the returned route is the centre of
\* turnpoint 0; stage 0 of every pass holds the single entry
\* (T0.centre, 0.0, no parent).
C5_RouteStartsAtFirstCentre ==
  /\ (Returned /\ Len(turnpoints) >= 1)
       => /\ Len(result.route) >= 1
          /\ result.route[1] = turnpoints[1].center
  /\ dp # <<>> => dp[1] = <<Entry(turnpoints[1].center, 0, None)>>

C5_Witness ==
  RefinementImproved /\ turnpoints[1].radius > 0

\* the points of the goal line of tp for an approach from prev_point
GoalLinePoints(tp, prev_point) ==
  {GoalLinePoint(tp, prev_point, k) : k \in 0..GoalLineLength(tp)}

\* p lies on turnpoint tp when reached from prev_point
OnTurnpoint(tp, prev_point, p) ==
  IF tp.goal_type = "LINE"
  THEN p \in GoalLinePoints(tp, prev_point)
  ELSE geodesic(p, tp.center) <= tp.radius

\* C6: every point R[i], i > 0, of the returned route lies on turnpoint i:
\* within radius of the centre for a cylinder, on the goal line for a goal
\* line, whichever pass produced the route.
C6_RoutePointsOnTurnpoints ==
  (Returned /\ Len(turnpoints) >= 2)
    => \A k \in 2..Len(turnpoints) :
         OnTurnpoint(turnpoints[k], result.route[k - 1], result.route[k])

\* C7: the returned distance is never greater than the distance d_0 of
\* pass 0; the best distance starts at d_0 and is only replaced by a strictly
\* smaller pass distance, so it is the minimum over the passes run.
C7_BestIsMinimumOfPasses ==
  /\ (Returned /\ Len(turnpoints) >= 2)
       => /\ result.distance <= distances[1]
          /\ result.distance = MinOf(distances, Len(distances))
  /\ pc \in {"loop", "refine", "break"}
       => best_distance = MinOf(distances, Len(distances))

C7_Witness ==
  RefinementImproved /\ Len(distances) >= 3
    /\ distances[Len(distances)] >= result.distance

\* C8 (safety part): pass 0 and at most iterations - 1 refinement passes
\* are run; a pass that is not strictly smaller than the best so far is the
\* last pass; the value returned is the best pair seen.
C8_LoopInvariant ==
  /\ Len(distances) <= config.num_iterations
  /\ \A k \in 2..Len(distances) :
       distances[k] >= MinOf(distances, k - 1)
         => k = Len(distances) /\ pc \in {"break", "done"}
  /\ (Returned /\ Len(turnpoints) >= 2)
       => /\ result = [distance |-> best_distance, route |-> best_route]
          /\ result.distance = MinOf(distances, Len(distances))

\* an upper bound on the number of steps the call still takes
Rank ==
  LET n == Len(turnpoints)
      turns == IF config.num_iterations > 1 THEN config.num_iterations ELSE 1
  IN  CASE pc = "call"   -> 3 + turns * (n + 2)
        [] pc = "pass0"  -> 3 + (turns - 1) * (n + 2) + (n - stage)
        [] pc = "loop"   -> 1 + (turns - iteration) * (n + 2)
        [] pc = "refine" -> 2 + (turns - iteration - 1) * (n + 2) + (n - stage)
        [] pc = "break"  -> 1
        [] OTHER         -> 0

\* the guard of some step of the call holds
StepPossible ==
  \/ pc \in {"call", "loop", "break"}
  \/ pc \in {"pass0", "refine"} /\ stage <= Len(pass_turnpoints)

\* C8: the refinement loop runs pass 0 and then at most iterations - 1
\* refinement passes, stops at the first pass that is not strictly smaller
\* than the best so far, runs no pass after it, and always terminates
\* returning the best (distance, route) pair seen: until the call is done a
\* step is always possible, and every step lowers the bound Rank >= 0.
C8_StopsAtFirstNonImprovement ==
  /\ [](C8_LoopInvariant /\ Rank >= 0 /\ (pc # "done" => StepPossible))
  /\ [][Rank' < Rank]_vars

C8_Witness ==
  /\ Returned
  /\ Len(distances) >= 2
  /\ Len(distances) < config.num_iterations
  /\ distances[Len(distances)] >= MinOf(distances, Len(distances) - 1)

\* C9: for the same turnpoints and iteration count, optimize with beam
\* width 2W never returns a larger distance than with beam width W >= 1.
C9_DoubleBeamNeverWorse ==
  (Returned /\ Len(turnpoints) >= 2)
    => CalculateIterativelyRefinedRoute(
         turnpoints, Some(2 * config.beam_width), num_iterations_arg).distance
       <= result.distance

C9_Witness ==
  /\ Returned
  /\ Len(turnpoints) = MaxN
  /\ config.beam_width = 1
  /\ \A k \in 2..Len(turnpoints) : turnpoints[k].radius > 0
  /\ result.distance > 0

AllRadiiZero(ts) == AllCylinders(ts) /\ \A k \in 1..Len(ts) : ts[k].radius = 0

\* C10: when every cylinder of the list has radius 0, optimize returns
\* exactly distance_through_centers and the route is the list of centres in
\* order; each stage holds exactly one candidate, the centre.
C10_ZeroRadiiCollapse ==
  AllRadiiZero(turnpoints)
    => /\ (Returned /\ Len(turnpoints) >= 2)
            => /\ result.distance = distance_through_centers(turnpoints)
               /\ result.route =
                    [k \in 1..Len(turnpoints) |-> turnpoints[k].center]
       /\ dp # <<>>
            => \A k \in 1..stage :
                 /\ Len(dp[k]) = 1
                 /\ dp[k][1].point = turnpoints[k].center

C10_Witness ==
  /\ Returned
  /\ Len(turnpoints) = MaxN
  /\ AllRadiiZero(turnpoints)
  /\ result.distance > 0
  /\ Len(distances) >= 2

\* the stepwise run and the function of the arguments agree
ResultAgrees ==
  Returned
    => LET r == CalculateIterativelyRefinedRoute(turnpoints, beam_width_arg,
                                                 num_iterations_arg)
       IN  result = [distance |-> r.distance, route |-> r.route]

\* ------------------------------------------------ claims on the task layer
\* the task with every turnpoint tag removed
Untagged(t) ==
  [t EXCEPT !.turnpoints =
     [i \in 1..Len(t.turnpoints) |->
        Turnpoint(t.turnpoints[i].radius, t.turnpoints[i].waypoint, "NONE")]]

TaskGoalIsLine(t) ==
  Len(t.turnpoints) > 0 /\ t.goal # None /\ t.goal[1].type = "LINE"

\* C14: _task_to_turnpoints returns one turnpoint per task turnpoint, in
\* order, with centre and radius copied, except that for goal type LINE the
\* last one, and only the last, is a goal line of radius 0; SSS and ESS tags
\* make no difference to the result
C14_AdapterTranscribes ==
  tpc = "converted" =>
    /\ Len(adapter_result) = Len(task.turnpoints)
    /\ \A i \in 1..Len(task.turnpoints) :
         /\ adapter_result[i].center = task.turnpoints[i].waypoint
         /\ IF i = Len(task.turnpoints) /\ TaskGoalIsLine(task)
            THEN /\ adapter_result[i].goal_type = "LINE"
                 /\ adapter_result[i].radius = 0
            ELSE /\ adapter_result[i].goal_type # "LINE"
                 /\ adapter_result[i].radius = task.turnpoints[i].radius
    /\ adapter_result = task_to_turnpoints(Untagged(task))

\* a converted two-turnpoint task with an SSS tag and a LINE goal whose last
\* turnpoint has a radius
C14_Witness ==
  /\ tpc = "converted"
  /\ Len(task.turnpoints) = 2
  /\ TaskGoalIsLine(task)
  /\ task.turnpoints[1].type = "SSS"
  /\ task.turnpoints[1].radius > 0
  /\ task.turnpoints[2].type = "ESS"
  /\ task.turnpoints[2].radius > 0
  /\ adapter_result[2].radius = 0
  /\ adapter_result[1].radius > 0

\* C15: for a task file whose goal has type LINE and an explicit
\* lineLength, the goal-line turnpoint built from the parsed task has that
\* line length; twice the last radius is used only without a lineLength
C15_ExplicitLineLengthKept ==
  (/\ tpc = "converted"
   /\ Len(task_data.turnpoints) > 0
   /\ task_data.goal # None
   /\ task_data.goal[1].type = "LINE") =>
    LET last == Len(task_data.turnpoints)
    IN  adapter_result[last].goal_line_length =
          IF task_data.goal[1].lineLength # None
          THEN task_data.goal[1].lineLength
          ELSE Some(task_data.turnpoints[last].radius * 2)

\* C16: every goal-line turnpoint the adapter produces has a line length
\* greater than 0: the task's, else twice the last radius, else (radius 0)
\* the 400 m default
C16_GoalLineLengthPositive ==
  tpc = "converted" =>
    \A i \in 1..Len(adapter_result) :
      adapter_result[i].goal_type = "LINE" =>
        /\ GoalLineLength(adapter_result[i]) > 0
        /\ task_data.goal[1].lineLength = None =>
             GoalLineLength(adapter_result[i]) =
               IF task.turnpoints[i].radius > 0
               THEN task.turnpoints[i].radius * 2
               ELSE DefaultGoalLineLength

\* ------------------------------------------- claims on rejecting bad input
\* a goal line at an index other than the last, or of non-positive length
HasInvalidGoalLine(ts) ==
  \E k \in 1..Len(ts) :
    /\ ts[k].goal_type = "LINE"
    /\ \/ k < Len(ts)
       \/ ts[k].goal_line_length # None /\ ts[k].goal_line_length[1] <= 0

ValidConfig == config.beam_width >= 1 /\ config.num_iterations >= 1

\* C12: a turnpoint list with a goal line before the last index, or with a
\* goal line of non-positive length, is rejected with InvalidGoalLine: the
\* call returns no distance and no route
C12_InvalidGoalLineRejected ==
  (pc = "done" /\ ValidConfig /\ HasInvalidGoalLine(turnpoints)) =>
    outcome = "InvalidGoalLine"

\* C13: a configuration with beam_width < 1 or iterations < 1 is rejected
\* with InvalidConfig; for two or more turnpoints the call never returns
\* distance 0 with an empty route
C13_InvalidConfigRejected ==
  (pc = "done" /\ ~HasInvalidGoalLine(turnpoints)) =>
    /\ ~ValidConfig => outcome = "InvalidConfig"
    /\ (outcome = "returned" /\ Len(turnpoints) >= 2) =>
         ~(result.distance = 0 /\ result.route = <<>>)

\* ---------------------------------------------- claims on the distance report
\* a sequence in reverse order
Reverse(s) == [k \in 1..Len(s) |-> s[Len(s) + 1 - k]]

\* the turnpoints reduced to their centres: radius 0, no kind, no line length
CentresOnly(ts) ==
  [k \in 1..Len(ts) |-> TaskTurnpoint(ts[k].center, 0, "NONE", None)]

\* center_dist of the report has been computed
CenterDistanceComputed ==
  rpc \in {"optimize", "details", "done", "queried"}
    /\ Len(report_turnpoints) >= 2

\* C11: distance_through_centers gives the same value for a turnpoint list
\* and for its reversal, does not depend on radius, kind or line length, and
\* is 0 for fewer than two turnpoints
C11_CentreDistanceSymmetric ==
  /\ CenterDistanceComputed =>
       /\ center_dist
            = Metres(distance_through_centers(Reverse(report_turnpoints)))
       /\ center_dist
            = Metres(distance_through_centers(CentresOnly(report_turnpoints)))
       /\ \A k \in 0..1 :
            distance_through_centers(SubSeq(report_turnpoints, 1, k)) = 0
  /\ (rpc = "done" /\ Len(report_turnpoints) < 2) =>
       /\ distance_through_centers(report_turnpoints) = 0
       /\ report.center_distance_km = 0

\* a three-turnpoint task with two legs of different length, a cylinder
\* with a radius and a goal line, whose centre distance has been computed
C11_Witness ==
  /\ CenterDistanceComputed
  /\ Len(report_turnpoints) = 3
  /\ geodesic(report_turnpoints[1].center, report_turnpoints[2].center)
       # geodesic(report_turnpoints[2].center, report_turnpoints[3].center)
  /\ report_turnpoints[2].radius > 0
  /\ report_turnpoints[3].goal_type = "LINE"
  /\ center_dist > 0

\* the prefix T0..Ti (i counted from 0) of the report's turnpoints
Prefix(i) == SubSeq(report_turnpoints, 1, i + 1)

\* the optimized distance of a full optimize run with the caller's
\* configuration, as the report rounds it
FullRunKm(ts) ==
  RoundKm(Metres(optimized_distance(ts, report_args.beam_width,
                                    report_args.num_iterations)))

\* C17: in the report, entry 0 has both cumulative values 0, and for every
\* i >= 1 the optimized cumulative value is the result of the full optimize
\* run on T0..Ti with the caller's beam width and iteration count, so the
\* last entry equals the task's total optimized distance
C17_CumulativeIsPrefixRun ==
  (rpc \in {"done", "queried"} /\ Len(report_turnpoints) >= 2) =>
    /\ report.turnpoints[1].cumulative_center_km = 0
    /\ report.turnpoints[1].cumulative_optimized_km = 0
    /\ \A i \in 1..(Len(report_turnpoints) - 1) :
         report.turnpoints[i + 1].cumulative_optimized_km = FullRunKm(Prefix(i))
    /\ report.turnpoints[Len(report_turnpoints)].cumulative_optimized_km
         = report.optimized_distance_km
    /\ (rpc = "queried" /\ cumulative.index >= 1) =>
         RoundKm(cumulative.opt_dist) = FullRunKm(Prefix(cumulative.index))

\* ================================================= the SSS entry point
\* angle steps whose azimuths 0, step, 2*step, ... are multiples of 90
\* degrees, for which geod.fwd stays on the grid
SssAngleSteps == {90, 180, 270, 360}
\* a point of the takeoff, or of the route on the turnpoint after the SSS
SssPoints ==
  {<<x, y>> : x \in (0 - MaxRadius)..MaxRadius,
              y \in (0 - MaxRadius)..(MaxCoord + MaxRadius)}

InitSss ==
  /\ sss_args \in [sss_turnpoint : Cylinders,
                   takeoff_center : Centers,
                   first_tp_after_sss_point : SssPoints,
                   angle_step : {Some(s) : s \in SssAngleSteps}]
  /\ sss_perimeter = <<>>
  /\ best_sss_point = None
  /\ spc = "call"
  /\ OptimizerIdle
  /\ TaskIdle
  /\ ReportIdle
  /\ ThreadsIdle
  /\ StageIdle
  /\ SssInfoIdle
  /\ CacheIdle

\* sss_perimeter = sss_turnpoint.perimeter_points(config["angle_step"])
SssPerimeterPoints ==
  /\ spc = "call"
  /\ sss_perimeter' = perimeter_points(sss_args.sss_turnpoint,
                                       sss_angle_step(sss_args.angle_step))
  /\ spc' = "perimeter"
  /\ UNCHANGED <<sss_args, best_sss_point, optvars, taskvars, reportvars,
                 threadvars, stagevars, infovars, cachevars>>

\* best_sss_point = min(sss_perimeter, key=...); return best_sss_point
SssSelectBest ==
  /\ spc = "perimeter"
  /\ best_sss_point' =
       Some(sss_perimeter[MinKeyIndex(sss_perimeter, sss_args.takeoff_center,
                                      sss_args.first_tp_after_sss_point,
                                      Len(sss_perimeter))])
  /\ spc' = "done"
  /\ UNCHANGED <<sss_args, sss_perimeter, optvars, taskvars, reportvars,
                 threadvars, stagevars, infovars, cachevars>>

NextSss == SssPerimeterPoints \/ SssSelectBest

SpecSss == InitSss /\ [][NextSss]_vars

\* the perimeter samples of a cylinder: azimuths 0, step, 2*step, ... < 360
PerimeterSamples(tp, angle_step) ==
  {geod_fwd(tp.center, k * angle_step, tp.radius) :
     k \in {j \in 0..FullTurn : j * angle_step < FullTurn}}

\* the two-leg sum takeoff -> p -> q
TwoLegSum(p) ==
  geodesic(sss_args.takeoff_center, p)
  + geodesic(p, sss_args.first_tp_after_sss_point)

\* C18: the SSS helper returns one of the SSS cylinder's perimeter samples
\* (azimuths 0, step, 2*step, ... below 360), no other sample has a strictly
\* smaller sum distance(takeoff, p) + distance(p, q), and for an SSS
\* turnpoint of radius 0 the returned point is the centre
C18_SssEntryPointIsBestSample ==
  spc = "done" =>
    LET samples == PerimeterSamples(sss_args.sss_turnpoint,
                                    sss_args.angle_step[1])
        best == best_sss_point[1]
    IN  /\ best \in samples
        /\ \A p \in samples : TwoLegSum(best) <= TwoLegSum(p)
        /\ sss_args.sss_turnpoint.radius = 0
             => best = sss_args.sss_turnpoint.center

\* the helper returned for a cylinder with a radius, four samples, and a
\* target off the meridian: the samples differ in their two-leg sums and
\* the one returned is not the first sample
C18_Witness ==
  /\ spc = "done"
  /\ sss_args.sss_turnpoint.radius > 0
  /\ sss_args.angle_step = Some(90)
  /\ Len(sss_perimeter) = 4
  /\ best_sss_point[1] # sss_perimeter[1]
  /\ \E p \in PerimeterSamples(sss_args.sss_turnpoint, 90) :
       TwoLegSum(p) > TwoLegSum(best_sss_point[1])

\* ============================================ concurrent optimize calls
\* Each thread runs one call of calculate_iteratively_refined_route; the
\* locals of the call of thread t are the record calls[t]. The module has
\* no other mutable state: route_optimization.py defines functions only.
Threads == 1..MaxThreads

\* a takeoff and a last turnpoint, or the takeoff alone
ThreadTurnpointLists ==
  {<<TaskTurnpoint(<<0, 0>>, 0, "NONE", None)>>}
  \cup {<<TaskTurnpoint(<<0, 0>>, 0, "NONE", None), tp>> :
          tp \in {c \in Cylinders \cup GoalLines : c.center = <<0, MaxCoord>>}}

\* the locals of a call that has not run yet
NewCall(ts) ==
  [turnpoints |-> ts, pc |-> "call", pass_turnpoints |-> <<>>, dp |-> <<>>,
   stage |-> 0, current_route |-> <<>>, best_distance |-> 0,
   best_route |-> <<>>, iteration |-> 0,
   result |-> [distance |-> 0, route |-> <<>>], outcome |-> "running"]

\* the calls take the default beam width and iteration count
thread_config == get_optimization_config(None, None)

InitThreads ==
  /\ calls \in [Threads -> {NewCall(ts) : ts \in ThreadTurnpointLists}]
  /\ OptimizerIdle
  /\ TaskIdle
  /\ ReportIdle
  /\ SssIdle
  /\ StageIdle
  /\ SssInfoIdle
  /\ CacheIdle

ThreadFrame == UNCHANGED <<optvars, taskvars, reportvars, sssvars, stagevars, infovars,
                 cachevars>>

\* len(turnpoints) < 2: return 0.0 and the centres
ThreadReturnDegenerate(t) ==
  /\ calls[t].pc = "call"
  /\ IsDegenerate(calls[t].turnpoints)
  /\ calls' = [calls EXCEPT
       ![t].result = [distance |-> 0,
                      route |-> [k \in 1..Len(calls[t].turnpoints) |->
                                   calls[t].turnpoints[k].center]],
       ![t].outcome = "returned",
       ![t].pc = "done"]
  /\ ThreadFrame

\* dp = _init_dp_structure(turnpoints) of the initial pass
ThreadStartInitialPass(t) ==
  /\ calls[t].pc = "call"
  /\ ~IsDegenerate(calls[t].turnpoints)
  /\ calls' = [calls EXCEPT
       ![t].pass_turnpoints = calls[t].turnpoints,
       ![t].dp = InitDpStructure(calls[t].turnpoints),
       ![t].stage = 1,
       ![t].pc = "pass0"]
  /\ ThreadFrame

\* a variant in which the DP stages are one structure of the module, which
\* every running call reads and writes
ThreadInitialDpStage_SharedDp(t) ==
  /\ calls[t].pc = "pass0"
  /\ calls[t].stage < Len(calls[t].pass_turnpoints)
  /\ LET c == calls[t]
         new_dp == [c.dp EXCEPT ![c.stage + 1] =
                      ProcessDpStage(c.dp, c.stage, c.pass_turnpoints,
                                     thread_config.beam_width)]
     IN  calls' = [u \in Threads |->
                     IF u = t
                     THEN [c EXCEPT !.dp = new_dp, !.stage = c.stage + 1]
                     ELSE IF calls[u].pc \in {"pass0", "refine"}
                     THEN [calls[u] EXCEPT !.dp = new_dp]
                     ELSE calls[u]]
  /\ ThreadFrame

\* one turn of the forward pass of the initial pass, on the call's own dp
ThreadInitialDpStage(t) ==
  /\ calls[t].pc = "pass0"
  /\ calls[t].stage < Len(calls[t].pass_turnpoints)
  /\ LET c == calls[t]
     IN  calls' = [calls EXCEPT
           ![t].dp = [c.dp EXCEPT ![c.stage + 1] =
                        ProcessDpStage(c.dp, c.stage, c.pass_turnpoints,
                                       thread_config.beam_width)],
           ![t].stage = c.stage + 1]
  /\ ThreadFrame

\* end of the initial pass: "Store initial results"
ThreadFinishInitialPass(t) ==
  /\ calls[t].pc = "pass0"
  /\ calls[t].stage = Len(calls[t].pass_turnpoints)
  /\ LET c == calls[t]
         r == PassResult(c.dp, c.pass_turnpoints)
     IN  calls' = [calls EXCEPT ![t] =
           IF r.raised
           THEN [c EXCEPT !.outcome = "KeyError", !.pc = "done"]
           ELSE [c EXCEPT !.current_route = r.route,
                          !.best_distance = r.distance,
                          !.best_route = r.route,
                          !.iteration = 1,
                          !.pc = "loop"]]
  /\ ThreadFrame

\* one more turn of the refinement loop
ThreadStartRefinementPass(t) ==
  /\ calls[t].pc = "loop"
  /\ calls[t].iteration < thread_config.num_iterations
  /\ LET c == calls[t]
         refined == CreateRefinedTurnpoints(c.turnpoints, c.current_route)
     IN  calls' = [calls EXCEPT
           ![t].pass_turnpoints = refined,
           ![t].dp = InitDpStructure(refined),
           ![t].stage = 1,
           ![t].pc = "refine"]
  /\ ThreadFrame

\* one turn of the forward pass of a refinement pass
ThreadRefinedDpStage(t) ==
  /\ calls[t].pc = "refine"
  /\ calls[t].stage < Len(calls[t].pass_turnpoints)
  /\ LET c == calls[t]
     IN  calls' = [calls EXCEPT
           ![t].dp = [c.dp EXCEPT ![c.stage + 1] =
                        ProcessDpStageWithRefinedTarget(
                          c.dp, c.stage, c.pass_turnpoints,
                          RefinedNextTarget(c.stage, c.pass_turnpoints,
                                            c.current_route),
                          thread_config.beam_width)],
           ![t].stage = c.stage + 1]
  /\ ThreadFrame

\* end of a refinement pass and "Check for improvement"
ThreadFinishRefinementPass(t) ==
  /\ calls[t].pc = "refine"
  /\ calls[t].stage = Len(calls[t].pass_turnpoints)
  /\ LET c == calls[t]
         r == PassResult(c.dp, c.pass_turnpoints)
     IN  calls' = [calls EXCEPT ![t] =
           IF r.raised
           THEN [c EXCEPT !.outcome = "KeyError", !.pc = "done"]
           ELSE IF r.distance < c.best_distance
           THEN [c EXCEPT !.best_distance = r.distance,
                          !.best_route = r.route,
                          !.current_route = r.route,
                          !.iteration = c.iteration + 1,
                          !.pc = "loop"]
           ELSE [c EXCEPT !.pc = "break"]]
  /\ ThreadFrame

\* "return best_distance, best_route"
ThreadReturnBest(t) ==
  /\ \/ calls[t].pc = "loop"
        /\ calls[t].iteration >= thread_config.num_iterations
     \/ calls[t].pc = "break"
  /\ calls' = [calls EXCEPT
       ![t].result = [distance |-> calls[t].best_distance,
                      route |-> calls[t].best_route],
       ![t].outcome = "returned",
       ![t].pc = "done"]
  /\ ThreadFrame

\* the scheduler lets any thread take its next step
NextThreads ==
  \/ \E t \in Threads : ThreadReturnDegenerate(t)
  \/ \E t \in Threads : ThreadStartInitialPass(t)
  \/ \E t \in Threads : ThreadInitialDpStage(t)
  \/ \E t \in Threads : ThreadFinishInitialPass(t)
  \/ \E t \in Threads : ThreadStartRefinementPass(t)
  \/ \E t \in Threads : ThreadRefinedDpStage(t)
  \/ \E t \in Threads : ThreadFinishRefinementPass(t)
  \/ \E t \in Threads : ThreadReturnBest(t)

SpecThreads == InitThreads /\ [][NextThreads]_vars

\* what the call of thread t returns when it runs alone
RunAlone(t) ==
  CalculateIterativelyRefinedRoute(calls[t].turnpoints, None, None)

\* C19: optimize calls running concurrently in different threads share no
\* mutable state: under every interleaving of their steps each call ends as
\* it ends alone, returning the same (distance, route)
C19_ConcurrentCallsIndependent ==
  \A t \in Threads :
    calls[t].pc = "done" =>
      /\ calls[t].outcome = "returned"
      /\ ~RunAlone(t).raised
      /\ calls[t].result.distance = RunAlone(t).distance
      /\ calls[t].result.route = RunAlone(t).route

\* every thread's call went through its passes and returned, and two of
\* them, on different inputs, returned different results
C19_Witness ==
  /\ \A t \in Threads : calls[t].pc = "done" /\ calls[t].iteration >= 1
  /\ \E t, u \in Threads :
       /\ calls[t].turnpoints # calls[u].turnpoints
       /\ calls[t].result # calls[u].result

PassTarget(i) ==
  IF pc = "refine"
  THEN LET next_target == RefinedNextTarget(i, pass_turnpoints, current_route)
       IN  IF next_target = None
           THEN (IF i + 1 < Len(pass_turnpoints)
                 THEN pass_turnpoints[i + 2].center
                 ELSE pass_turnpoints[i + 1].center)
           ELSE next_target
  ELSE IF i + 1 < Len(pass_turnpoints) THEN pass_turnpoints[i + 2].center
  ELSE pass_turnpoints[i + 1].center

\* C21: a refinement pass applies the per-stage rule of pass 0 to the same
\* turnpoints: every turnpoint of the pass has the kind and line length of
\* the caller's turnpoint, and every candidate of a stage built on a goal
\* line is the goal-line touch point for its predecessor
C21_RefinementKeepsGoalLine ==
  pc = "refine" =>
    /\ \A k \in 1..Len(turnpoints) :
         /\ pass_turnpoints[k].goal_type = turnpoints[k].goal_type
         /\ pass_turnpoints[k].goal_line_length = turnpoints[k].goal_line_length
    /\ \A k \in 2..stage :
         turnpoints[k].goal_type = "LINE" =>
           \A j \in 1..Len(dp[k]) :
             dp[k][j].point =
               FindOptimalGoalLinePoint(turnpoints[k], dp[k][j].parent,
                                        PassTarget(k - 1))

\* the look-ahead target of stage i (code index) as the pass should choose
\* it: the next centre in pass 0, the previous route's next point in a
\* refinement pass, the stage's own centre at the last stage
ExpectedTarget(i) ==
  LET n == Len(pass_turnpoints)
  IN  IF i < n - 1
      THEN (IF pc = "refine" THEN current_route[i + 2]
            ELSE pass_turnpoints[i + 2].center)
      ELSE pass_turnpoints[i + 1].center

\* the touch point rule of the running pass
PassOptimalPoint(current_tp, prev_point, next_center) ==
  IF pc = "refine"
  THEN RefinedStageOptimalPoint(current_tp, prev_point, next_center)
  ELSE StageOptimalPoint(current_tp, prev_point, next_center)

\* C22: the look-ahead target of DP stage i is, in pass 0, the centre of
\* turnpoint i+1 when i < n-1 and the centre of turnpoint i when i = n-1; in
\* a refinement pass it is the previous route's point i+1 when i < n-1 and
\* the centre of turnpoint i when i = n-1; the previous route has n points,
\* so the fallback is taken at the last stage only
C22_LookAheadTarget ==
  pc \in {"pass0", "refine"} =>
    /\ pc = "refine" => Len(current_route) = Len(pass_turnpoints)
    /\ \A i \in 1..(Len(pass_turnpoints) - 1) :
         PassTarget(i) = ExpectedTarget(i)
    /\ \A k \in 2..stage : \A j \in 1..Len(dp[k]) :
         dp[k][j].point =
           PassOptimalPoint(pass_turnpoints[k], dp[k][j].parent,
                            ExpectedTarget(k - 1))

\* a refinement pass over MaxN turnpoints has built all its stages, and the
\* target of a stage before the last was a route point that is not the
\* centre of the next turnpoint
C22_Witness ==
  /\ pc = "refine"
  /\ Len(pass_turnpoints) = MaxN
  /\ stage = Len(pass_turnpoints)
  /\ \E i \in 1..(MaxN - 2) :
       /\ ExpectedTarget(i) # pass_turnpoints[i + 2].center
       /\ \E j \in 1..Len(dp[i + 1]) :
            dp[i + 1][j].point #
              PassOptimalPoint(pass_turnpoints[i + 1], dp[i + 1][j].parent,
                               pass_turnpoints[i + 2].center)

\* ===================================================== one DP stage
\* points a stage dp[i - 1] may hold: on the meridian and beside it
StagePoints == {<<x, y>> : x \in {0 - 1, 0, 1}, y \in 0..MaxCoord}
StageDistances == {0, 1}
\* a stage dp[i - 1] of one or two candidates, in insertion order
PrevStages ==
  {<<Entry(p, d, None)>> : p \in StagePoints, d \in StageDistances}
  \cup {s \in {<<Entry(p1, d1, None), Entry(p2, d2, None)>> :
                   p1 \in StagePoints, d1 \in StageDistances,
                   p2 \in StagePoints, d2 \in StageDistances} :
          s[1].point # s[2].point}

InitStage ==
  /\ stage_args \in [prev_stage : PrevStages,
                     current_tp : Cylinders \cup GoalLines,
                     next_center : Centers,
                     beam_width : 1..MaxBeam,
                     refined : BOOLEAN]
  /\ new_candidates = <<>>
  /\ stage_result = <<>>
  /\ gpc = "call"
  /\ OptimizerIdle
  /\ TaskIdle
  /\ ReportIdle
  /\ SssIdle
  /\ ThreadsIdle
  /\ SssInfoIdle
  /\ CacheIdle

StageFrame ==
  UNCHANGED <<stage_args, optvars, taskvars, reportvars, sssvars, threadvars,
              infovars, cachevars>>

\* _process_dp_stage: the loop over dp[i - 1].items()
StageLoop ==
  /\ gpc = "call"
  /\ ~stage_args.refined
  /\ new_candidates' =
       StageCandidates(stage_args.prev_stage, stage_args.current_tp,
                       stage_args.next_center, Len(stage_args.prev_stage))
  /\ gpc' = "candidates"
  /\ UNCHANGED stage_result
  /\ StageFrame

\* _process_dp_stage_with_refined_target: the loop over dp[i - 1].items()
RefinedStageLoop ==
  /\ gpc = "call"
  /\ stage_args.refined
  /\ new_candidates' =
       RefinedStageCandidates(stage_args.prev_stage, stage_args.current_tp,
                              stage_args.next_center,
                              Len(stage_args.prev_stage))
  /\ gpc' = "candidates"
  /\ UNCHANGED stage_result
  /\ StageFrame

\* "Beam search: keep only the best beam_width candidates" and the return
StageBeamSearch ==
  /\ gpc = "candidates"
  /\ stage_result' = BeamPrune(new_candidates, stage_args.beam_width)
  /\ gpc' = "done"
  /\ UNCHANGED new_candidates
  /\ StageFrame

NextStage == StageLoop \/ RefinedStageLoop \/ StageBeamSearch

SpecStage == InitStage /\ [][NextStage]_vars

\* the touch point the stage computes for the predecessor prev_stage[k]
StageTouch(k) ==
  IF stage_args.refined
  THEN RefinedStageOptimalPoint(stage_args.current_tp,
                                stage_args.prev_stage[k].point,
                                stage_args.next_center)
  ELSE StageOptimalPoint(stage_args.current_tp,
                         stage_args.prev_stage[k].point,
                         stage_args.next_center)

\* predecessor distance + leg distance for the predecessor prev_stage[k]
StageTotal(k) ==
  stage_args.prev_stage[k].dist
  + geodesic(stage_args.prev_stage[k].point, StageTouch(k))

\* the predecessors whose touch point is p
Predecessors(p) ==
  {k \in 1..Len(stage_args.prev_stage) : StageTouch(k) = p}

\* C23: after a stage is built from any previous stage, each candidate p
\* stores the minimum over the predecessors whose touch point is p of
\* predecessor distance + leg distance, and its parent is a predecessor
\* that attains the minimum
C23_StageStoresMinimum ==
  gpc = "done" =>
    \A j \in 1..Len(stage_result) :
      LET e == stage_result[j]
      IN  /\ Predecessors(e.point) # {}
          /\ \A k \in Predecessors(e.point) : e.dist <= StageTotal(k)
          /\ \E k \in Predecessors(e.point) :
               /\ stage_args.prev_stage[k].point = e.parent
               /\ StageTotal(k) = e.dist

\* two predecessors touch the same point with different totals and the
\* better one came second
C23_Witness ==
  /\ gpc = "done"
  /\ Len(stage_args.prev_stage) = 2
  /\ Len(stage_result) = 1
  /\ StageTouch(1) = StageTouch(2)
  /\ StageTotal(2) < StageTotal(1)
  /\ stage_result[1].parent = stage_args.prev_stage[2].point

\* the entries of new_candidates the beam search dropped
Discarded ==
  {j \in 1..Len(new_candidates) :
     \A k \in 1..Len(stage_result) : stage_result[k] # new_candidates[j]}

\* C24: after a stage with beam width W >= 1 the stage holds at most W
\* entries, and when pruning happened the kept entries are W entries of
\* smallest total distance: no discarded entry has a strictly smaller
\* distance than a kept one
C24_BeamKeepsSmallest ==
  gpc = "done" =>
    /\ Len(stage_result) <= stage_args.beam_width
    /\ \A k \in 1..Len(stage_result) :
         \E j \in 1..Len(new_candidates) : new_candidates[j] = stage_result[k]
    /\ Len(new_candidates) > stage_args.beam_width =>
         /\ Len(stage_result) = stage_args.beam_width
         /\ \A j \in Discarded : \A k \in 1..Len(stage_result) :
              new_candidates[j].dist >= stage_result[k].dist
    /\ Len(new_candidates) <= stage_args.beam_width =>
         stage_result = new_candidates

\* the beam search dropped the candidate inserted first, which was longer
C24_Witness ==
  /\ gpc = "done"
  /\ Len(new_candidates) > stage_args.beam_width
  /\ 1 \in Discarded
  /\ \E k \in 1..Len(stage_result) :
       stage_result[k].dist < new_candidates[1].dist

\* lexicographic order of points (lat, lon): the point <<x, y>> has
\* latitude y and longitude x
LexLess(p, q) == p[2] < q[2] \/ (p[2] = q[2] /\ p[1] < q[1])

InfoTurnpoints ==
  {Turnpoint(r, c, t) :
     r \in {0, MaxRadius}, c \in Centers, t \in {"NONE", "SSS"}}
InfoTasks ==
  {ts \in UNION {[1..n -> InfoTurnpoints] : n \in 1..MaxN} :
     \A j, k \in 1..Len(ts) :
       (ts[j].type = "SSS" /\ ts[k].type = "SSS") => j = k}

\* the route is the optimized route of the task's turnpoints
InitSssInfo ==
  /\ info_args \in
       {[task_turnpoints |-> ts,
         route_coordinates |->
           optimized_route_coordinates(
             task_to_turnpoints([turnpoints |-> ts, goal |-> None])),
         angle_step |-> Some(90)] : ts \in InfoTasks}
  /\ helper_args = None
  /\ sss_info = None
  /\ ipc = "call"
  /\ OptimizerIdle
  /\ TaskIdle
  /\ ReportIdle
  /\ SssIdle
  /\ ThreadsIdle
  /\ StageIdle
  /\ CacheIdle

SssInfoFrame ==
  UNCHANGED <<info_args, optvars, taskvars, reportvars, sssvars, threadvars,
              stagevars, cachevars>>

\* index of the SSS turnpoint and the turnpoint after it, when both exist
SssFound ==
  /\ Len(info_args.task_turnpoints) >= 2
  /\ find_sss_turnpoint(info_args.task_turnpoints) # None
  /\ get_first_tp_after_sss_point(
       info_args.task_turnpoints,
       find_sss_turnpoint(info_args.task_turnpoints)[1],
       info_args.route_coordinates) # None

\* calculate_sss_info returns None: fewer than two turnpoints, no SSS, or
\* no turnpoint after the SSS
SssInfoNone ==
  /\ ipc = "call"
  /\ ~SssFound
  /\ sss_info' = None
  /\ ipc' = "done"
  /\ UNCHANGED helper_args
  /\ SssInfoFrame

\* calculate_sss_info up to the call of calculate_optimal_sss_entry_point
SssInfoCallHelper ==
  /\ ipc = "call"
  /\ SssFound
  /\ LET sss_index == find_sss_turnpoint(info_args.task_turnpoints)[1]
         tp == info_args.task_turnpoints[sss_index + 1]
         next_tp_result ==
           get_first_tp_after_sss_point(info_args.task_turnpoints, sss_index,
                                        info_args.route_coordinates)[1]
     IN  helper_args' =
           Some([sss_turnpoint |->
                   TaskTurnpoint(tp.waypoint, tp.radius, "NONE", None),
                 takeoff_center |-> info_args.task_turnpoints[1].waypoint,
                 first_tp_after_sss_point |-> next_tp_result.route_point,
                 first_tp_after_sss |-> next_tp_result.next_tp])
  /\ ipc' = "helper"
  /\ UNCHANGED sss_info
  /\ SssInfoFrame

\* the helper's result and the dictionary returned
SssInfoReturn ==
  /\ ipc = "helper"
  /\ LET a == helper_args[1]
         sss_perimeter_points ==
           perimeter_points(a.sss_turnpoint,
                            sss_angle_step(info_args.angle_step))
     IN  sss_info' =
           Some([sss_center |-> a.sss_turnpoint,
                 optimal_entry_point |->
                   sss_perimeter_points[
                     MinKeyIndex(sss_perimeter_points, a.takeoff_center,
                                 a.first_tp_after_sss_point,
                                 Len(sss_perimeter_points))],
                 first_tp_after_sss |-> a.first_tp_after_sss,
                 takeoff_center |-> a.takeoff_center])
  /\ ipc' = "done"
  /\ UNCHANGED helper_args
  /\ SssInfoFrame

NextSssInfo == SssInfoNone \/ SssInfoCallHelper \/ SssInfoReturn

SpecSssInfo == InitSssInfo /\ [][NextSssInfo]_vars

\* C26: when the SSS information is computed for a task whose SSS
\* turnpoint is at index s, the point q given to the SSS helper is the
\* optimized route's touch point on turnpoint s+1, wherever the SSS
\* turnpoint is in the task
C26_HelperGetsTouchAfterSss ==
  helper_args # None =>
    LET s == find_sss_turnpoint(info_args.task_turnpoints)[1]
    IN  helper_args[1].first_tp_after_sss_point
          = info_args.route_coordinates[s + 2]

\* the call run again with beam width w
RunWithBeam(w) ==
  CalculateIterativelyRefinedRoute(turnpoints, Some(w), num_iterations_arg)

\* C27: in every pass with beam width >= 1 every DP stage holds exactly one
\* candidate, so the beam never prunes, and the distance and route returned
\* are the same for every beam width >= 1: a call with any beam width,
\* the default included, returns what the call with beam width 1 returns
C27_OneCandidatePerStage ==
  /\ pc \in {"pass0", "refine"} =>
       \A k \in 1..stage : Len(dp[k]) = 1
  /\ (Returned /\ Len(turnpoints) >= 2) =>
       /\ RunWithBeam(1).distance = result.distance
       /\ RunWithBeam(1).route = result.route

\* a call with the default beam width over MaxN turnpoints with a cylinder of
\* positive radius returned after a refinement pass
C27_Witness ==
  /\ Returned
  /\ beam_width_arg = None
  /\ Len(turnpoints) = MaxN
  /\ Len(distances) >= 2
  /\ \E k \in 2..Len(turnpoints) : turnpoints[k].radius > 0
  /\ result.distance > 0

\* C28: after a forward pass over n >= 2 turnpoints with beam width >= 1
\* the parent stored in every entry of stage i >= 1 is a key of stage i-1,
\* so the back-trace from the best final entry never looks up a missing
\* point and returns a route of exactly n points, the k-th of them a
\* candidate of stage k
C28_BacktraceFindsParents ==
  /\ outcome # "KeyError"
  /\ pc \in {"pass0", "refine"} =>
       /\ \A k \in 2..stage : \A j \in 1..Len(dp[k]) :
            KeyIndex(dp[k - 1], dp[k][j].parent) # 0
       /\ stage = Len(pass_turnpoints) =>
            LET r == PassResult(dp, pass_turnpoints)
            IN  /\ ~r.raised
                /\ Len(r.route) = Len(pass_turnpoints)
                /\ \A k \in 1..Len(r.route) : KeyIndex(dp[k], r.route[k]) # 0
                /\ \A k \in 2..Len(r.route) :
                     dp[k][KeyIndex(dp[k], r.route[k])].parent = r.route[k - 1]
  /\ (Returned /\ Len(turnpoints) >= 2) =>
       Len(result.route) = Len(turnpoints)

\* the forward pass of a refinement pass over MaxN turnpoints is complete
\* and its back-trace visits different points
C28_Witness ==
  /\ pc = "refine"
  /\ Len(pass_turnpoints) = MaxN
  /\ stage = MaxN
  /\ LET r == PassResult(dp, pass_turnpoints)
     IN  /\ Len(r.route) = MaxN
         /\ \A k \in 2..MaxN : r.route[k] # r.route[k - 1]

\* ======================================================= the task cache
\* Every method of TaskCache runs its body under the cache's lock, so a
\* call is one step; cleanup_expired reads the clock before it takes the
\* lock and is two steps.  Any thread may take any step.
CacheValues == {1, 2}
CacheTtlArgs == {None, Some(0)}

InitCache ==
  /\ CacheIdle
  /\ OptimizerIdle
  /\ TaskIdle
  /\ ReportIdle
  /\ SssIdle
  /\ ThreadsIdle
  /\ StageIdle
  /\ SssInfoIdle

CacheFrame ==
  UNCHANGED <<optvars, taskvars, reportvars, sssvars, threadvars, stagevars,
              infovars>>

\* TaskCache.get(key)
CacheGet(key) ==
  /\ cache' = IF cache[key] # None /\ now > cache[key][1].expires_at
              THEN [cache EXCEPT ![key] = None] ELSE cache
  /\ last_get' = Some([key |-> key, result |-> CacheLookup(cache, key, now),
                       turn |-> IF last_get = None THEN 0
                                ELSE 1 - last_get[1].turn])
  /\ UNCHANGED <<now, stored, cleanup_time, cleanup_call>>
  /\ CacheFrame

\* TaskCache.set(key, value, ttl)
CacheSet(key, value, ttl_arg) ==
  /\ cache' = [cache EXCEPT
       ![key] = Some(CacheEntry(value, now + CacheTtl(ttl_arg)))]
  /\ stored' = [stored EXCEPT
       ![key] = Some(CacheEntry(value, now + CacheTtl(ttl_arg)))]
  /\ UNCHANGED <<now, cleanup_time, last_get, cleanup_call>>
  /\ CacheFrame

\* TaskCache.delete(key)
CacheDelete(key) ==
  /\ cache' = [cache EXCEPT ![key] = None]
  /\ stored' = [stored EXCEPT ![key] = None]
  /\ UNCHANGED <<now, cleanup_time, last_get, cleanup_call>>
  /\ CacheFrame

\* TaskCache.clear()
CacheClear ==
  /\ cache' = [k \in CacheKeys |-> None]
  /\ stored' = [k \in CacheKeys |-> None]
  /\ UNCHANGED <<now, cleanup_time, last_get, cleanup_call>>
  /\ CacheFrame

\* cleanup_expired: current_time = time.time(), before the lock is taken
CleanupReadTime ==
  /\ cleanup_time = None
  /\ cleanup_time' = Some(now)
  /\ UNCHANGED <<cache, now, stored, last_get, cleanup_call>>
  /\ CacheFrame

\* cleanup_expired: under the lock, delete the keys expired at current_time
CleanupRemove ==
  /\ cleanup_time # None
  /\ cache' = WithoutExpired(cache, cleanup_time[1])
  /\ cleanup_time' = None
  /\ UNCHANGED <<now, stored, last_get, cleanup_call>>
  /\ CacheFrame

\* time passes
Tick ==
  /\ now < MaxTime
  /\ now' = now + 1
  /\ UNCHANGED <<cache, stored, cleanup_time, last_get, cleanup_call>>
  /\ CacheFrame

NextCache ==
  \/ \E key \in CacheKeys : CacheGet(key)
  \/ \E key \in CacheKeys, value \in CacheValues, ttl_arg \in CacheTtlArgs :
       CacheSet(key, value, ttl_arg)
  \/ \E key \in CacheKeys : CacheDelete(key)
  \/ CacheClear
  \/ CleanupReadTime
  \/ CleanupRemove
  \/ Tick

SpecCache == InitCache /\ [][NextCache]_vars

\* C29: under every interleaving of set, get, delete, clear and
\* cleanup_expired, a get(key) returns a value only if that value was stored
\* by the most recent set(key), no delete(key) or clear happened since, and
\* the entry's expiry time has not passed; otherwise it returns None, and a
\* get that finds an expired entry removes it
C29_GetReturnsLiveEntry ==
  [][last_get' # last_get =>
       LET g == last_get'[1]
           recent == stored[g.key]
       IN  /\ g.result # None =>
                /\ recent # None
                /\ g.result[1] = recent[1].value
                /\ now <= recent[1].expires_at
           /\ (recent = None \/ now > recent[1].expires_at) => g.result = None
           /\ (cache[g.key] # None /\ now > cache[g.key][1].expires_at) =>
                cache'[g.key] = None]_vars

\* a get found the entry of the most recent set expired, returned None and
\* removed it, while a cleanup_expired was waiting for the lock and the
\* other key held a live entry
C29_Witness ==
  /\ last_get # None
  /\ last_get[1].result = None
  /\ stored[last_get[1].key] # None
  /\ now > stored[last_get[1].key][1].expires_at
  /\ cache[last_get[1].key] = None
  /\ cleanup_time # None
  /\ \E k \in CacheKeys :
       /\ cache[k] # None
       /\ now <= cache[k][1].expires_at

\* ------------------------------------ cleanup_old_task_data_from_cache
CleanupMaxItems == {1, DEFAULT_MAX_ITEMS}

\* cleanup_old_task_data_from_cache(max_items): cleanup_expired, then
\* current_size = cache.size(), compared with max_items for a log line
CleanupOldTaskData(max_items) ==
  /\ cleanup_time = None
  /\ cache' = WithoutExpired(cache, now)
  /\ cleanup_call' =
       Some([max_items |-> max_items,
             current_size |-> CacheSize(WithoutExpired(cache, now))])
  /\ UNCHANGED <<now, stored, cleanup_time, last_get>>
  /\ CacheFrame

\* task loads and uploads store entries, time passes, the cleanup runs
NextCacheCleanup ==
  \/ \E key \in CacheKeys, value \in CacheValues, ttl_arg \in CacheTtlArgs :
       CacheSet(key, value, ttl_arg)
  \/ Tick
  \/ \E max_items \in CleanupMaxItems : CleanupOldTaskData(max_items)

SpecCacheCleanup == InitCache /\ [][NextCacheCleanup]_vars

\* C30: after cleanup_old_task_data_from_cache(max_items) returns the cache
\* keeps at most max_items items, after any sequence of stores
C30_CleanupKeepsMaxItems ==
  cleanup_call # None =>
    cleanup_call[1].current_size <= cleanup_call[1].max_items

====
